---- MODULE Spec2Model ----
(***************************************************************************)
(* A model of the eureka-cli deployment orchestration: the consumer-lag    *)
(* barrier and capability binding of attachCapabilitySets, the module      *)
(* health probes, role lookup and user provisioning, the removal of        *)
(* tenants and entitlements, the resolution of module ids and the          *)
(* assembly of the application.                                            *)
(***************************************************************************)
EXTENDS Integers, Sequences, FiniteSets, TLC

\* ------------------------------------------------------------------ bounds
\* rows (lines) of the lag command's stdout
MaxRows == 2
\* tenants the platform reports
MaxTenants == 3
\* capability sets the platform holds
MaxCapSets == 3
\* rows of the lag command's stdout for a tenant with many partitions
ManyRows == 20
\* characters of a generated module id
MaxIdLen == 4

\* --------------------------------------------------------------- constants
NoActiveMembersErrorMessage == "Consumer group 'folio-mod-roles-keycloak-capability-group' has no active members."
IsRebalancingErrorMessage == "Consumer group 'folio-mod-roles-keycloak-capability-group' is rebalancing."
\* any other text the administrative tool writes to stderr
OtherErrorMessage == "Error: Executing consumer group command failed"

HealtcheckMaxAttempts == 50
TenantNames == {"diku", "extra", "other"}
Modules == {"mod-users", "mod-orders"}
Usernames == {"diku_admin", "diku_user"}
\* the keys of the roles configuration (the platform returns Admin, User, Guest)
RoleKeys == {"admin", "user"}
ApplicationIds == {"app-platform-1.0.0", "app-extra-1.0.0"}
CapabilitySetIds == <<"c1", "c2", "c3", "c4">>
CapabilitySetNames == {"ui-users", "ui-orders"}
Digits == {"0", "2", "5"}
DigitVal(c) == CASE c = "0" -> 0 [] c = "2" -> 2 [] c = "5" -> 5 [] OTHER -> 0

\* the absent values
NoTick == [tenant |-> "", none |-> TRUE]
NoLag == <<>>

VARIABLES
    \* the configuration view (viper): tenants, roles
    cfgTenants, cfgRoles,
    \* the platform: tenants, roles per tenant, applications, capability sets
    platTenants, platRoles, platApps, platCapSets,
    \* AttachCapabilitySets: position, loop index, the two lag variables
    pc, ti, lag, lagTick,
    \* per tenant: the barrier's state, and whether binding began
    barrier, bound,
    \* history: the last tick, the last lag that parsed, the example's progress
    lastTick, lastParsed, matched,
    \* the API calls issued
    calls,
    \* PerformModuleHealthcheck, per module: position, attempts left, probes made,
    \* the last probe's outcome
    hpc, healthcheckAttempts, probes, lastProbe, lastResponse,
    \* the wait group's counter, the caller blocked on it, the process
    waitCount, orch, crashed,
    \* CreateUsers: the configured users, the tenant provisioned, position, the
    \* users not yet visited, the role lookups made for the last user
    cfgUsers, existingTenant, upc, usersLeft, lookups,
    \* the deployment run: the operations of the tenant manager already performed,
    \* and whether a fatal error ended the run
    tdone, run,
    \* dto.RegistryModules: the modules of the registries, in order
    registryModules,
    \* dto.BackendModulesMap, dto.FrontendModulesMap, application.fetch-descriptors
    backendModulesMap, frontendModulesMap, applicationFetchDescriptors,
    \* CreateApplications: the three lists it built, and how it ended
    backendModules, frontendModules, discoveryModules, appCreated,
    \* the arguments UpdateModuleDiscovery is called with
    discoveryArgs

healthVars == <<hpc, healthcheckAttempts, probes, lastProbe, lastResponse, waitCount, orch,
                crashed>>
userVars == <<cfgUsers, existingTenant, upc, usersLeft, lookups>>
cfgVars == <<cfgTenants, cfgRoles>>
platVars == <<platTenants, platRoles, platApps, platCapSets>>
attachVars == <<pc, ti, lag, lagTick, barrier, bound, lastTick, lastParsed, matched>>
assemblerVars == <<backendModulesMap, frontendModulesMap, applicationFetchDescriptors,
                   backendModules, frontendModules, discoveryModules, appCreated>>
deployVars == <<tdone, run, registryModules, assemblerVars, discoveryArgs>>
vars == <<cfgVars, platVars, attachVars, calls, healthVars, userVars, deployVars>>

\* ----------------------------------------------------------------- helpers
SeqsUpTo(S, n) == UNION {[1..k -> S] : k \in 0..n}
DistinctSeqs(S, n) == {s \in SeqsUpTo(S, n) : \A i, j \in DOMAIN s : i # j => s[i] # s[j]}
Range(s) == {s[i] : i \in DOMAIN s}

\* ------------------------------------------------------ getConsumerGroupLag
\* stdout is the rows awk prints, each ended by a newline; stderr the messages
Rows == {<<"0">>, <<"2">>, <<"5">>, <<"-">>, <<" ", "0">>}
\* a tenant with many partitions: every row 5, every row 0, the last row 5
ManyRowsStdouts ==
    {[i \in 1..ManyRows |-> <<"5">>], [i \in 1..ManyRows |-> <<"0">>],
     [i \in 1..ManyRows |-> IF i = ManyRows THEN <<"5">> ELSE <<"0">>]}
Stdouts == SeqsUpTo(Rows, MaxRows) \cup ManyRowsStdouts
Stderrs == {<<NoActiveMembersErrorMessage>>, <<IsRebalancingErrorMessage>>,
            <<OtherErrorMessage>>, <<OtherErrorMessage, IsRebalancingErrorMessage>>}
Samples == {[stdout |-> o, stderr |-> <<>>] : o \in Stdouts}
             \cup {[stdout |-> o, stderr |-> e] : o \in {<<>>, <<<<"5">>>>}, e \in Stderrs}

\* regexp NewLinePattern ReplaceAllString(stdout, ""): the rows joined
RECURSIVE RemoveNewLines(_)
RemoveNewLines(rows) ==
    IF rows = <<>> THEN <<>> ELSE Head(rows) \o RemoveNewLines(Tail(rows))

\* strings.TrimSpace
RECURSIVE TrimLeft(_)
TrimLeft(s) == IF s # <<>> /\ Head(s) = " " THEN TrimLeft(Tail(s)) ELSE s
RECURSIVE TrimRight(_)
TrimRight(s) ==
    IF s # <<>> /\ s[Len(s)] = " " THEN TrimRight(SubSeq(s, 1, Len(s) - 1)) ELSE s
TrimSpace(s) == TrimRight(TrimLeft(s))

\* strconv.Atoi: an optional sign, then one or more digits
RECURSIVE DecimalValue(_)
DecimalValue(s) ==
    IF s = <<>> THEN 0 ELSE 10 * DecimalValue(SubSeq(s, 1, Len(s) - 1)) + DigitVal(s[Len(s)])
AllDigits(s) == s # <<>> /\ \A i \in DOMAIN s : s[i] \in Digits

\* the range of int (64 bits): the digits are compared with those of 1<<63 - 1
\* (of 1<<63 after a minus sign) once the leading zeros are dropped
MaxIntDigits ==
    <<"9", "2", "2", "3", "3", "7", "2", "0", "3", "6", "8", "5", "4", "7", "7", "5", "8", "0", "7">>
MinIntDigits ==
    <<"9", "2", "2", "3", "3", "7", "2", "0", "3", "6", "8", "5", "4", "7", "7", "5", "8", "0", "8">>
DigitOrd(c) ==
    CASE c = "0" -> 0 [] c = "1" -> 1 [] c = "2" -> 2 [] c = "3" -> 3 [] c = "4" -> 4
      [] c = "5" -> 5 [] c = "6" -> 6 [] c = "7" -> 7 [] c = "8" -> 8 [] OTHER -> 9
RECURSIVE DropLeadingZeros(_)
DropLeadingZeros(s) == IF s # <<>> /\ Head(s) = "0" THEN DropLeadingZeros(Tail(s)) ELSE s
RECURSIVE DigitsAtMost(_, _)
DigitsAtMost(s, limit) ==
    IF s = <<>> THEN TRUE
    ELSE IF DigitOrd(Head(s)) # DigitOrd(Head(limit)) THEN DigitOrd(Head(s)) < DigitOrd(Head(limit))
    ELSE DigitsAtMost(Tail(s), Tail(limit))
InIntRange(s, limit) ==
    LET d == DropLeadingZeros(s) IN
    Len(d) < Len(limit) \/ (Len(d) = Len(limit) /\ DigitsAtMost(d, limit))

\* a number out of the range of int is an error (ErrRange), as is a string
\* that is not a number (ErrSyntax)
Atoi(s) ==
    IF s # <<>> /\ Head(s) = "-" /\ AllDigits(Tail(s))
    THEN IF InIntRange(Tail(s), MinIntDigits)
         THEN [ok |-> TRUE, val |-> 0 - DecimalValue(DropLeadingZeros(Tail(s)))]
         ELSE [ok |-> FALSE, val |-> 0]
    ELSE IF AllDigits(s)
    THEN IF InIntRange(s, MaxIntDigits)
         THEN [ok |-> TRUE, val |-> DecimalValue(DropLeadingZeros(s))]
         ELSE [ok |-> FALSE, val |-> 0]
    ELSE [ok |-> FALSE, val |-> 0]

Contains(stderr, message) == \E i \in DOMAIN stderr : stderr[i] = message
IsTransient(stderr) ==
    Contains(stderr, NoActiveMembersErrorMessage) \/ Contains(stderr, IsRebalancingErrorMessage)
ParseLag(stdout) == Atoi(TrimSpace(RemoveNewLines(stdout)))

\* internal.LogErrorPanic and internal.LogErrorPrintStderrPanic log the error
\* and panic: the statements after the call are not reached
LogErrorPanic == TRUE

\* the two ways getConsumerGroupLag ends
Panic == [panic |-> LogErrorPanic, lag |-> 0]
Return(v) == [panic |-> FALSE, lag |-> v]

\* a getConsumerGroupLag that panics when the output is not a number
getConsumerGroupLagStrict(s, initialLag) ==
    IF Len(s.stderr) > 0
    THEN IF IsTransient(s.stderr) THEN Return(initialLag) ELSE Panic
    ELSE IF ~ParseLag(s.stdout).ok THEN Panic
    ELSE Return(ParseLag(s.stdout).val)

getConsumerGroupLag(s, initialLag) ==
    IF Len(s.stderr) > 0
    THEN IF IsTransient(s.stderr) THEN Return(initialLag) ELSE Panic
    ELSE IF ~ParseLag(s.stdout).ok THEN Return(initialLag)
    ELSE Return(ParseLag(s.stdout).val)

\* ---------------------------------------------- AttachCapabilitySetsToRoles
\* strings.ToLower on the role names the platform returns
ToLower(name) ==
    CASE name = "Admin" -> "admin"
      [] name = "User" -> "user"
      [] name = "Guest" -> "guest"
      [] OTHER -> name

\* GetRoles: the roles of the tenant (nil, ranged over as empty, when none)
GetRoles(tenant) == platRoles[tenant]

\* GetApplications(...).ApplicationDescriptors
GetApplications == platApps

\* GET /capability-sets?query=applicationId==<id>
CapabilitySetsOfApplication(applicationId) ==
    SelectSeq(platCapSets, LAMBDA c : c.applicationId = applicationId)

\* GetCapabilitySets: the loop over the applications, from `found` on
RECURSIVE GetCapabilitySetsFrom(_, _)
GetCapabilitySetsFrom(applications, found) ==
    IF applications = <<>> THEN found
    ELSE LET got == CapabilitySetsOfApplication(Head(applications)) IN
         IF got = <<>> THEN <<>>
         ELSE GetCapabilitySetsFrom(Tail(applications), found \o got)
GetCapabilitySets == GetCapabilitySetsFrom(GetApplications, <<>>)

\* GetCapabilitySetsByName: GET /capability-sets?query=name=<name>; the platform
\* answers with the capability sets of that name
GetCapabilitySetsByName(capabilitySetName) ==
    SelectSeq(platCapSets, LAMBDA c : c.name = capabilitySetName)

RECURSIVE addSelectedCapabilitySets(_, _)
addSelectedCapabilitySets(capabilitySetsConfig, capabilitySetsMapList) ==
    IF capabilitySetsConfig = <<>> THEN capabilitySetsMapList
    ELSE addSelectedCapabilitySets(Tail(capabilitySetsConfig),
             capabilitySetsMapList \o GetCapabilitySetsByName(Head(capabilitySetsConfig)))

addAllCapabilitySets(capabilitySetsMapList) == capabilitySetsMapList \o GetCapabilitySets

\* a test that takes "all" anywhere in the list for the expansion
IsAllConfigAnywhere(capabilitySetsConfig) == "all" \in Range(capabilitySetsConfig)

\* len(capabilitySetsConfig) == 1 && slices.Contains(capabilitySetsConfig, "all")
IsAllConfig(capabilitySetsConfig) ==
    Len(capabilitySetsConfig) = 1 /\ "all" \in Range(capabilitySetsConfig)

CapabilitySetsMapList(capabilitySetsConfig) ==
    IF IsAllConfig(capabilitySetsConfig)
    THEN addAllCapabilitySets(<<>>)
    ELSE addSelectedCapabilitySets(capabilitySetsConfig, <<>>)

CapabilitySetIdsOf(capabilitySetsMapList) ==
    [i \in DOMAIN capabilitySetsMapList |-> capabilitySetsMapList[i].id]

\* an attach call that is issued whatever the length of the id list
SkipsAttachNever(capabilitySetIds) == FALSE

\* if len(capabilitySetIds) == 0 { ...; continue }
SkipsAttach(capabilitySetIds) == Len(capabilitySetIds) = 0

\* a loop body that goes on whatever the tenant of the configured role
SkipsRoleOfOtherTenantNever(tenant, roleConfigMapEntry) == FALSE

\* if tenant != roleConfigMapEntry["tenant"].(string) { continue }
SkipsRoleOfOtherTenant(tenant, roleConfigMapEntry) == tenant # roleConfigMapEntry.tenant

\* the body of the loop over the roles: the attach call issued for one role, if any
AttachCallsForRole(role, tenant) ==
    LET key == ToLower(role.name) IN
    IF key \notin DOMAIN cfgRoles THEN <<>>
    ELSE IF SkipsRoleOfOtherTenant(tenant, cfgRoles[key]) THEN <<>>
    ELSE LET ids == CapabilitySetIdsOf(CapabilitySetsMapList(cfgRoles[key].capabilitySets)) IN
         IF SkipsAttach(ids) THEN <<>>
         ELSE <<[op |-> "attachCapabilitySets", tenant |-> tenant, roleId |-> role.id,
                 capabilitySetIds |-> ids]>>

RECURSIVE AttachCallsForRoles(_, _)
AttachCallsForRoles(roles, tenant) ==
    IF roles = <<>> THEN <<>>
    ELSE AttachCallsForRole(Head(roles), tenant) \o AttachCallsForRoles(Tail(roles), tenant)

AttachCapabilitySetsToRoles(tenant) == AttachCallsForRoles(GetRoles(tenant), tenant)

\* DetachCapabilitySetsFromRoles: DELETE /roles/<id>/capability-sets for every
\* role of the tenant that the configuration names
RECURSIVE DetachCallsForRoles(_, _)
DetachCallsForRoles(roles, tenant) ==
    IF roles = <<>> THEN <<>>
    ELSE (IF ToLower(Head(roles).name) \notin DOMAIN cfgRoles THEN <<>>
          ELSE <<[op |-> "detachCapabilitySets", tenant |-> tenant, roleId |-> Head(roles).id]>>)
         \o DetachCallsForRoles(Tail(roles), tenant)
DetachCapabilitySetsFromRoles(tenant) == DetachCallsForRoles(GetRoles(tenant), tenant)

\* ------------------------------------------------ PerformModuleHealthcheck
\* what the two GETs of one attempt decode to: the body as text (words), and
\* the body as a JSON object (Nil when the request or the decoding failed)
HealthBodies == {<<>>, <<"OK">>, <<"Service", "OK">>, <<"DOWN">>}
HealthMaps ==
    {[nil |-> TRUE, hasStatus |-> FALSE, status |-> <<>>],
     [nil |-> FALSE, hasStatus |-> FALSE, status |-> <<>>],
     [nil |-> FALSE, hasStatus |-> TRUE, status |-> <<"UP">>],
     [nil |-> FALSE, hasStatus |-> TRUE, status |-> <<"DOWN">>]}
HealthResponses == [str : HealthBodies, map : HealthMaps]

\* strings.Contains on a text of words
ContainsWord(text, word) == \E i \in DOMAIN text : text[i] = word

\* actuatorHealthMap["status"].(string) panics when the map has no status
StatusAssertionPanics(r) == ~r.map.nil /\ ~r.map.hasStatus
isHealthyVertxContainer(r) == ContainsWord(r.str, "OK")
isHealthySpringBootContainer(r) == ~r.map.nil /\ ContainsWord(r.map.status, "UP")

\* healthcheckAttempts > 0, after the decrement
AttemptsLeftInclusive(attempts) == attempts >= 0
AttemptsLeft(attempts) == attempts > 0

\* a signal that takes two from the counter
DoneTwice(counter) == counter - 2

\* waitMutex.Done()
Done(counter) == counter - 1

\* one iteration of the loop of PerformModuleHealthcheck for module m
ProbeAttempt(m) ==
    /\ ~crashed
    /\ hpc[m] = "probing"
    /\ probes' = [probes EXCEPT ![m] = @ + 1]
    /\ \E r \in HealthResponses :
         /\ lastResponse' = [lastResponse EXCEPT ![m] = <<r>>]
         /\ IF StatusAssertionPanics(r)
            THEN /\ hpc' = [hpc EXCEPT ![m] = "panicked"]
                 /\ lastProbe' = [lastProbe EXCEPT ![m] = "malformed"]
                 /\ crashed' = TRUE
                 /\ UNCHANGED <<healthcheckAttempts, waitCount>>
            ELSE IF isHealthyVertxContainer(r) \/ isHealthySpringBootContainer(r)
            THEN /\ hpc' = [hpc EXCEPT ![m] = "healthy"]
                 /\ lastProbe' = [lastProbe EXCEPT ![m] = "healthy"]
                 /\ waitCount' = Done(waitCount)
                 /\ UNCHANGED <<healthcheckAttempts, crashed>>
            ELSE /\ healthcheckAttempts' = [healthcheckAttempts EXCEPT ![m] = @ - 1]
                 /\ lastProbe' = [lastProbe EXCEPT ![m] = "unhealthy"]
                 /\ IF AttemptsLeft(healthcheckAttempts'[m])
                    THEN UNCHANGED <<hpc, waitCount>>
                    ELSE /\ hpc' = [hpc EXCEPT ![m] = "exhausted"]
                         /\ waitCount' = Done(waitCount)
                 /\ UNCHANGED crashed
    /\ UNCHANGED <<cfgVars, platVars, deployVars, attachVars, calls, userVars, orch>>

\* LogErrorPanic after waitMutex.Done(): the goroutine panics, the process ends
ProbePanic(m) ==
    /\ ~crashed
    /\ hpc[m] = "exhausted"
    /\ LogErrorPanic
    /\ hpc' = [hpc EXCEPT ![m] = "aborted"]
    /\ crashed' = TRUE
    /\ UNCHANGED <<cfgVars, platVars, deployVars, attachVars, calls, userVars, healthcheckAttempts,
                   probes, lastProbe, lastResponse, waitCount, orch>>

\* the caller's waitMutex.Wait() returns: past the "containers ready" gate
OrchProceed ==
    /\ ~crashed
    /\ orch = "waiting"
    /\ waitCount = 0
    /\ orch' = "past"
    /\ UNCHANGED <<cfgVars, platVars, deployVars, attachVars, calls, userVars, hpc,
                   healthcheckAttempts, probes, lastProbe, lastResponse, waitCount, crashed>>

\* the caller's waitMutex.Add: one per module whose probe it starts
WaitGroupAdded == Cardinality(Modules)

HealthIdle ==
    /\ hpc = [m \in Modules |-> "idle"]
    /\ healthcheckAttempts = [m \in Modules |-> HealtcheckMaxAttempts]
    /\ probes = [m \in Modules |-> 0]
    /\ lastProbe = [m \in Modules |-> "none"]
    /\ lastResponse = [m \in Modules |-> <<>>]
    /\ waitCount = 0
    /\ orch = "idle"
    /\ crashed = FALSE

\* ---------------------------------------------- GetRoleByName, CreateUsers
\* the decoded answer of GET /roles?query=name==<name>: whether it has "roles",
\* and the ids of the role records in it
LookupAnswers ==
    {[nil |-> TRUE, roles |-> <<>>], [nil |-> FALSE, roles |-> <<>>],
     [nil |-> FALSE, roles |-> <<"r1">>], [nil |-> FALSE, roles |-> <<"">>],
     [nil |-> FALSE, roles |-> <<"r1", "r2">>]}
\* what GetRoleByName hands back: a nil map, or a role record
NilRole == [nil |-> TRUE, id |-> ""]
Role(id) == [nil |-> FALSE, id |-> id]

\* a GetRoleByName that returns the first record when several are found
GetRoleByNameFirstOfMany(foundRolesMap) ==
    IF foundRolesMap.nil THEN [panic |-> FALSE, role |-> NilRole]
    ELSE IF Len(foundRolesMap.roles) = 0 THEN [panic |-> LogErrorPanic, role |-> NilRole]
    ELSE [panic |-> FALSE, role |-> Role(foundRolesMap.roles[1])]

GetRoleByName(foundRolesMap) ==
    IF foundRolesMap.nil THEN [panic |-> FALSE, role |-> NilRole]
    ELSE IF Len(foundRolesMap.roles) # 1 THEN [panic |-> LogErrorPanic, role |-> NilRole]
    ELSE [panic |-> FALSE, role |-> Role(foundRolesMap.roles[1])]

\* the loop over userRoles of CreateUsers, from role k on: role["id"].(string)
\* panics on the nil map GetRoleByName returns for absent roles
RECURSIVE ResolveRoles(_, _, _, _, _)
ResolveRoles(userRoles, answers, k, roleIds, made) ==
    IF k > Len(userRoles) THEN [panic |-> FALSE, roleIds |-> roleIds, lookups |-> made]
    ELSE LET got == GetRoleByName(answers[k])
             now == Append(made, [name |-> userRoles[k], found |-> answers[k],
                                  panic |-> got.panic, role |-> got.role]) IN
         IF got.panic \/ got.role.nil
         THEN [panic |-> TRUE, roleIds |-> roleIds, lookups |-> now]
         ELSE IF got.role.id = ""
         THEN ResolveRoles(userRoles, answers, k + 1, roleIds, now)
         ELSE ResolveRoles(userRoles, answers, k + 1, Append(roleIds, got.role.id), now)

AnswerLists(userRoles) == [1..Len(userRoles) -> LookupAnswers]

\* POST /users-keycloak/users, then POST /authn/credentials
CreatedCalls(username) ==
    <<[op |-> "createUser", tenant |-> existingTenant, username |-> username],
      [op |-> "attachPassword", tenant |-> existingTenant, username |-> username]>>
\* POST /roles/users with the role ids collected
AttachRolesCall(username, roleIds) ==
    [op |-> "attachRoles", tenant |-> existingTenant, username |-> username,
     roleIds |-> roleIds]

\* a loop body that attaches the roles before it creates the user
ProvisionCallsRolesFirst(username, roleIds) ==
    <<AttachRolesCall(username, roleIds)>> \o CreatedCalls(username)

\* the calls of one pass of the loop body that reaches its end
ProvisionCalls(username, roleIds) ==
    CreatedCalls(username) \o <<AttachRolesCall(username, roleIds)>>

\* the body of the loop over usersMap for one user (Go ranges over a map in any
\* order): skipped when of another tenant; else created, given the password,
\* its roles resolved and attached
VisitUser(username) ==
    /\ upc = "run"
    /\ username \in usersLeft
    /\ usersLeft' = usersLeft \ {username}
    /\ IF existingTenant # cfgUsers[username].tenant
       THEN UNCHANGED <<calls, upc, lookups>>
       ELSE \E answers \in AnswerLists(cfgUsers[username].roles) :
              LET r == ResolveRoles(cfgUsers[username].roles, answers, 1, <<>>, <<>>) IN
              /\ lookups' = r.lookups
              /\ IF r.panic
                 THEN /\ upc' = "aborted"
                      /\ calls' = calls \o CreatedCalls(username)
                 ELSE /\ UNCHANGED upc
                      /\ calls' = calls \o ProvisionCalls(username, r.roleIds)
    /\ UNCHANGED <<cfgVars, platVars, deployVars, attachVars, healthVars, cfgUsers, existingTenant>>

\* the range over usersMap is exhausted
UsersDone ==
    /\ upc = "run"
    /\ usersLeft = {}
    /\ upc' = "done"
    /\ UNCHANGED <<cfgVars, platVars, deployVars, attachVars, healthVars, calls, cfgUsers,
                   existingTenant, usersLeft, lookups>>

\* CreateApplications not called, on an empty configuration
AssemblerIdle ==
    /\ backendModulesMap = <<>>
    /\ frontendModulesMap = <<>>
    /\ applicationFetchDescriptors = FALSE
    /\ backendModules = <<>>
    /\ frontendModules = <<>>
    /\ discoveryModules = <<>>
    /\ appCreated = "no"

\* UpdateModuleDiscovery not called
NoDiscoveryArgs == [id |-> <<>>, sidecarUrl |-> <<>>, restore |-> FALSE, portServer |-> <<>>]

\* no step of the deployment run taken
DeployIdle ==
    /\ tdone = {}
    /\ run = "running"
    /\ registryModules = <<>>
    /\ AssemblerIdle
    /\ discoveryArgs = NoDiscoveryArgs

UsersIdle ==
    /\ cfgUsers = <<>>
    /\ existingTenant = ""
    /\ upc = "idle"
    /\ usersLeft = {}
    /\ lookups = <<>>

\* ----------------------------------------------------- AttachCapabilitySets
\* internal.HasTenant: the tenant is one of the configured tenants
HasTenant(t) == t \in cfgTenants

\* the samples of the worked example: 5, 5, rebalancing, 2, 0
ExampleMatches(k, s) ==
    CASE k \in {1, 2} -> s.stderr = <<>> /\ ParseLag(s.stdout) = [ok |-> TRUE, val |-> 5]
      [] k = 3 -> s.stderr = <<IsRebalancingErrorMessage>>
      [] k = 4 -> s.stderr = <<>> /\ ParseLag(s.stdout) = [ok |-> TRUE, val |-> 2]
      [] k = 5 -> s.stderr = <<>> /\ ParseLag(s.stdout) = [ok |-> TRUE, val |-> 0]
      [] OTHER -> FALSE
NextMatched(m, s) == IF m >= 0 /\ ExampleMatches(m + 1, s) THEN m + 1 ELSE -1

CurTenant == platTenants[ti]

\* for _, tenantValue := range GetTenants(...): the list is exhausted
LoopDone ==
    /\ pc = "loop"
    /\ ti > Len(platTenants)
    /\ pc' = "done"
    /\ UNCHANGED <<cfgVars, platVars, deployVars, healthVars, userVars, ti, lag, lagTick, barrier, bound, lastTick,
                   lastParsed, matched, calls>>

\* a loop body without the `continue`: the unconfigured tenant is polled too
LoopPollsUnconfigured ==
    /\ pc = "loop"
    /\ ti <= Len(platTenants)
    /\ ~HasTenant(CurTenant)
    /\ pc' = "poll"
    /\ lag' = 0
    /\ lagTick' = 0
    /\ barrier' = [barrier EXCEPT ![CurTenant] = "Polling"]
    /\ lastParsed' = NoLag
    /\ matched' = 0
    /\ UNCHANGED <<cfgVars, platVars, deployVars, healthVars, userVars, ti, bound, lastTick, calls>>

\* if !internal.HasTenant(existingTenant) { continue }
LoopSkip ==
    /\ pc = "loop"
    /\ ti <= Len(platTenants)
    /\ ~HasTenant(CurTenant)
    /\ ti' = ti + 1
    /\ UNCHANGED <<cfgVars, platVars, deployVars, healthVars, userVars, pc, lag, lagTick, barrier, bound, lastTick,
                   lastParsed, matched, calls>>

\* a loop body that calls AttachCapabilitySetsToRoles without polling first
LoopEnterWithoutPolling ==
    /\ pc = "loop"
    /\ ti <= Len(platTenants)
    /\ HasTenant(CurTenant)
    /\ pc' = "bind"
    /\ lag' = 0
    /\ lagTick' = 0
    /\ barrier' = [barrier EXCEPT ![CurTenant] = "Polling"]
    /\ lastParsed' = NoLag
    /\ matched' = 0
    /\ UNCHANGED <<cfgVars, platVars, deployVars, healthVars, userVars, ti, bound, lastTick, calls>>

\* pollCapabilitySetsCreation is entered: var lag int
LoopEnter ==
    /\ pc = "loop"
    /\ ti <= Len(platTenants)
    /\ HasTenant(CurTenant)
    /\ pc' = "poll"
    /\ lag' = 0
    /\ lagTick' = 0
    /\ barrier' = [barrier EXCEPT ![CurTenant] = "Polling"]
    /\ lastParsed' = NoLag
    /\ matched' = 0
    /\ UNCHANGED <<cfgVars, platVars, deployVars, healthVars, userVars, ti, bound, lastTick, calls>>

\* the argument of getConsumerGroupLag in `lag := getConsumerGroupLag(.., lag)`:
\* the right-hand side is evaluated in the scope of the outer lag, which is
\* declared by `var lag int` and never assigned
InitialLagArgument == lag

\* one iteration of the for loop of pollCapabilitySetsCreation
Tick ==
    /\ pc = "poll"
    /\ \E s \in Samples :
         LET r == getConsumerGroupLag(s, InitialLagArgument) IN
         /\ lastTick' = [tenant |-> CurTenant, none |-> FALSE, sample |-> s,
                         initialLag |-> InitialLagArgument, result |-> r]
         /\ matched' = NextMatched(matched, s)
         /\ lastParsed' = IF s.stderr = <<>> /\ ParseLag(s.stdout).ok
                          THEN <<ParseLag(s.stdout).val>> ELSE lastParsed
         /\ IF r.panic
            THEN /\ pc' = "aborted"
                 /\ barrier' = [barrier EXCEPT ![CurTenant] = "Aborted"]
                 /\ UNCHANGED lagTick
            ELSE /\ lagTick' = r.lag
                 /\ IF r.lag = 0
                    THEN /\ pc' = "bind"
                         /\ barrier' = [barrier EXCEPT ![CurTenant] = "Drained"]
                    ELSE UNCHANGED <<pc, barrier>>
    /\ UNCHANGED <<cfgVars, platVars, deployVars, healthVars, userVars, ti, lag, bound, calls>>

\* internal.AttachCapabilitySetsToRoles for the tenant, then the next tenant
Bind ==
    /\ pc = "bind"
    /\ bound' = bound \cup {CurTenant}
    /\ calls' = calls \o AttachCapabilitySetsToRoles(CurTenant)
    /\ ti' = ti + 1
    /\ pc' = "loop"
    /\ UNCHANGED <<cfgVars, platVars, deployVars, healthVars, userVars, lag, lagTick, barrier, lastTick, lastParsed, matched>>

AttachInit ==
    /\ pc = "loop"
    /\ ti = 1
    /\ lag = 0
    /\ lagTick = 0
    /\ barrier = [t \in TenantNames |-> "Idle"]
    /\ bound = {}
    /\ lastTick = NoTick
    /\ lastParsed = NoLag
    /\ matched = 0
    /\ calls = <<>>

\* one platform with two applications, and roles bound to every capability set
DefaultRolesConfig ==
    [k \in RoleKeys |-> [tenant |-> "diku",
                         capabilitySets |-> IF k = "admin" THEN <<"all">> ELSE <<"ui-users">>]]
DefaultPlatform ==
    /\ platRoles = [t \in TenantNames |->
                      <<[id |-> "r1", name |-> "Admin"], [id |-> "r2", name |-> "User"]>>]
    /\ platApps = <<"app-platform-1.0.0">>
    /\ platCapSets = <<[id |-> "c1", name |-> "ui-users", applicationId |-> "app-platform-1.0.0"],
                       [id |-> "c2", name |-> "ui-orders", applicationId |-> "app-platform-1.0.0"]>>

\* attachCapabilitySets, started on any platform tenant list and tenant configuration
Init ==
    /\ cfgTenants \in SUBSET TenantNames
    /\ cfgRoles = DefaultRolesConfig
    /\ platTenants \in DistinctSeqs(TenantNames, MaxTenants)
    /\ DefaultPlatform
    /\ AttachInit
    /\ HealthIdle
    /\ UsersIdle
    /\ DeployIdle

Next == LoopDone \/ LoopSkip \/ LoopEnter \/ Tick \/ Bind

Spec == Init /\ [][Next]_vars

\* ---- capability binding on its own: one tenant whose barrier has drained, on
\* any platform state and roles configuration
CapabilitySetStores ==
    UNION {{s \in [1..k -> [id : Range(CapabilitySetIds), name : CapabilitySetNames,
                            applicationId : ApplicationIds]] :
               \A i \in 1..k : s[i].id = CapabilitySetIds[i]} : k \in 0..MaxCapSets}
RoleConfigs ==
    {<<"all">>, <<"ui-users">>, <<"all", "ui-users">>, <<"ui-orders", "ui-users">>}
RolesConfigs ==
    {[k \in {"admin"} |-> [tenant |-> t, capabilitySets |-> c]] :
        t \in TenantNames, c \in RoleConfigs}
      \cup {[k \in RoleKeys |-> [tenant |-> "diku",
                 capabilitySets |-> IF k = "admin" THEN <<"all">> ELSE c]] : c \in RoleConfigs}
RoleLists ==
    {<<>>, <<[id |-> "r1", name |-> "Admin"]>>,
     <<[id |-> "r3", name |-> "Guest"], [id |-> "r1", name |-> "Admin"]>>,
     <<[id |-> "r1", name |-> "Admin"], [id |-> "r2", name |-> "User"]>>}

InitBind ==
    /\ cfgTenants = {"diku"}
    /\ cfgRoles \in RolesConfigs
    /\ platTenants = <<"diku">>
    /\ \E roles \in RoleLists : platRoles = [t \in TenantNames |-> roles]
    /\ platApps \in DistinctSeqs(ApplicationIds, 2)
    /\ platCapSets \in CapabilitySetStores
    /\ pc = "bind"
    /\ ti = 1
    /\ lag = 0
    /\ lagTick = 0
    /\ barrier = [t \in TenantNames |-> IF t = "diku" THEN "Drained" ELSE "Idle"]
    /\ bound = {}
    /\ lastTick = NoTick
    /\ lastParsed = NoLag
    /\ matched = -1
    /\ calls = <<>>
    /\ HealthIdle
    /\ UsersIdle
    /\ DeployIdle

NextBind == Bind \/ LoopDone

SpecBind == InitBind /\ [][NextBind]_vars

\* ---- the health probes of the deployed modules, one goroutine each, and the
\* caller waiting on the wait group it added one to per module
AttachIdle ==
    /\ cfgTenants = {"diku"}
    /\ cfgRoles = DefaultRolesConfig
    /\ platTenants = <<>>
    /\ DefaultPlatform
    /\ pc = "idle"
    /\ ti = 1
    /\ lag = 0
    /\ lagTick = 0
    /\ barrier = [t \in TenantNames |-> "Idle"]
    /\ bound = {}
    /\ lastTick = NoTick
    /\ lastParsed = NoLag
    /\ matched = -1
    /\ calls = <<>>

InitHealth ==
    /\ AttachIdle
    /\ UsersIdle
    /\ DeployIdle
    /\ hpc = [m \in Modules |-> "probing"]
    /\ healthcheckAttempts = [m \in Modules |-> HealtcheckMaxAttempts]
    /\ probes = [m \in Modules |-> 0]
    /\ lastProbe = [m \in Modules |-> "none"]
    /\ lastResponse = [m \in Modules |-> <<>>]
    /\ waitCount = WaitGroupAdded
    /\ orch = "waiting"
    /\ crashed = FALSE

NextHealth ==
    \/ \E m \in Modules : ProbeAttempt(m)
    \/ \E m \in Modules : ProbePanic(m)
    \/ OrchProceed

SpecHealth == InitHealth /\ [][NextHealth]_vars

\* ---- CreateUsers for one tenant, on any users configuration
RoleNameLists == {<<>>, <<"admin">>, <<"admin", "user">>}
InitUsers ==
    /\ AttachIdle
    /\ HealthIdle
    /\ DeployIdle
    /\ cfgUsers \in [Usernames -> [tenant : TenantNames, roles : RoleNameLists]]
    /\ existingTenant \in TenantNames
    /\ upc = "run"
    /\ usersLeft = Usernames
    /\ lookups = <<>>

NextUsers ==
    \/ \E u \in Usernames : VisitUser(u)
    \/ UsersDone

SpecUsers == InitUsers /\ [][NextUsers]_vars

\* ---- the tenant manager: removal of tenants and of tenant entitlements, on
\* any platform tenant list and tenant configuration
\* no step of AttachCapabilitySets taken
AttachVarsIdle ==
    /\ pc = "idle"
    /\ ti = 1
    /\ lag = 0
    /\ lagTick = 0
    /\ barrier = [t \in TenantNames |-> "Idle"]
    /\ bound = {}
    /\ lastTick = NoTick
    /\ lastParsed = NoLag
    /\ matched = -1
    /\ calls = <<>>

\* GetTenants: the "tenants" of GET /tenants (nil, ranged over as empty, when none)
GetTenants == platTenants

\* ConvertMapKeysToSlice(viper.GetStringMap(TenantsKey)): the configured names
ConvertMapKeysToSlice(stringMap) == stringMap

\* a filter that lets every tenant the platform reports through
IsAnyTenant(tenant) == TRUE

\* slices.Contains(ConvertMapKeysToSlice(viper.GetStringMap(TenantsKey)), tenant)
IsConfiguredTenant(tenant) == tenant \in ConvertMapKeysToSlice(cfgTenants)

\* the tenants a loop over GetTenants does not `continue` past
SelectedTenants == SelectSeq(GetTenants, IsConfiguredTenant)

\* DELETE /tenants/<id>?purge=true, one per selected tenant
DeleteTenantCalls ==
    [i \in DOMAIN SelectedTenants |-> [op |-> "deleteTenant", tenant |-> SelectedTenants[i]]]

\* DELETE /entitlements with the tenant's id and the application in the body
DeleteEntitlementCalls ==
    [i \in DOMAIN SelectedTenants |->
        [op |-> "deleteEntitlement", tenant |-> SelectedTenants[i]]]

\* RemoveTenants: DoDelete is called with panicOnError = false
RemoveTenants ==
    /\ run = "running"
    /\ "RemoveTenants" \notin tdone
    /\ calls' = calls \o DeleteTenantCalls
    /\ tdone' = tdone \cup {"RemoveTenants"}
    /\ UNCHANGED <<cfgVars, platVars, healthVars, userVars, attachVars, run, registryModules,
                   assemblerVars, discoveryArgs>>

\* RemoveTenantEntitlements: DoDeleteWithBody is called with panicOnError = true,
\* so the first request that fails ends the run
RemoveTenantEntitlements ==
    /\ run = "running"
    /\ "RemoveTenantEntitlements" \notin tdone
    /\ \E issued \in 0..Len(DeleteEntitlementCalls), failed \in BOOLEAN :
         /\ failed => issued > 0
         /\ ~failed => issued = Len(DeleteEntitlementCalls)
         /\ calls' = calls \o SubSeq(DeleteEntitlementCalls, 1, issued)
         /\ run' = IF failed /\ LogErrorPanic THEN "aborted" ELSE "running"
    /\ tdone' = tdone \cup {"RemoveTenantEntitlements"}
    /\ UNCHANGED <<cfgVars, platVars, healthVars, userVars, attachVars, registryModules,
                   assemblerVars, discoveryArgs>>

\* the "name" and "version" of the application configuration, and
\* fmt.Sprintf("%s-%s", applicationName, applicationVersion)
ApplicationName == <<"a", "p", "p", "-", "p", "l", "a", "t", "f", "o", "r", "m">>
ApplicationVersion == <<"1", ".", "0", ".", "0">>
ApplicationId == ApplicationName \o <<"-">> \o ApplicationVersion

EntitlementCall(tenant) ==
    [op |-> "createEntitlement", tenant |-> tenant, applications |-> <<ApplicationId>>]

\* a loop without the `continue`: one call per tenant the platform reports
CreateEntitlementCallsForAll ==
    [i \in DOMAIN GetTenants |-> EntitlementCall(GetTenants[i])]

\* POST /entitlements with the tenant's id and the application, one per
\* selected tenant
CreateEntitlementCalls ==
    [i \in DOMAIN SelectedTenants |-> EntitlementCall(SelectedTenants[i])]

\* CreateTenantEntitlement: DoPostReturnNoContent is called with panicOnError =
\* true, so the first request that fails ends the run
CreateTenantEntitlement ==
    /\ run = "running"
    /\ tdone \cap {"CreateTenantEntitlement", "CreateTenantEntitlement failed"} = {}
    /\ \E issued \in 0..Len(CreateEntitlementCalls), failed \in BOOLEAN :
         /\ failed => issued > 0
         /\ ~failed => issued = Len(CreateEntitlementCalls)
         /\ calls' = calls \o SubSeq(CreateEntitlementCalls, 1, issued)
         /\ run' = IF failed /\ LogErrorPanic THEN "aborted" ELSE "running"
         /\ tdone' = tdone \cup {IF failed THEN "CreateTenantEntitlement failed"
                                 ELSE "CreateTenantEntitlement"}
    /\ UNCHANGED <<cfgVars, platVars, healthVars, userVars, attachVars, registryModules,
                   assemblerVars, discoveryArgs>>

InitTenants ==
    /\ cfgTenants \in SUBSET TenantNames
    /\ cfgRoles = DefaultRolesConfig
    /\ platTenants \in DistinctSeqs(TenantNames, MaxTenants)
    /\ DefaultPlatform
    /\ AttachVarsIdle
    /\ HealthIdle
    /\ UsersIdle
    /\ DeployIdle

NextTenants == RemoveTenants \/ RemoveTenantEntitlements \/ CreateTenantEntitlement

SpecTenants == InitTenants /\ [][NextTenants]_vars

\* ---- ModuleIdRegexp and ExtractModuleNameAndVersion; a string is the
\* sequence of its characters
LowerLetters ==
    {"a", "b", "c", "d", "e", "f", "g", "h", "i", "j", "k", "l", "m", "n", "o", "p", "q",
     "r", "s", "t", "u", "v", "w", "x", "y", "z"}
UpperLetters ==
    {"A", "B", "C", "D", "E", "F", "G", "H", "I", "J", "K", "L", "M", "N", "O", "P", "Q",
     "R", "S", "T", "U", "V", "W", "X", "Y", "Z"}
DigitChars == {"0", "1", "2", "3", "4", "5", "6", "7", "8", "9"}

\* a first group that also takes digits
NameClassWithDigits == LowerLetters \cup DigitChars \cup {"-", "_"}

\* the character classes of ModuleIdPattern: [a-z-_], [\d-_.], [a-zA-Z0-9-_.]
NameClass == LowerLetters \cup {"-", "_"}
VersionClass == DigitChars \cup {"-", "_", "."}
QualifierClass == LowerLetters \cup UpperLetters \cup DigitChars \cup {"-", "_", "."}

AllIn(s, from, to, class) == \A k \in from..to : s[k] \in class

\* the last position of the longest run of characters of the class that
\* begins at i (i - 1 when there is none)
RECURSIVE RunEnd(_, _, _)
RunEnd(s, i, class) ==
    IF i <= Len(s) /\ s[i] \in class THEN RunEnd(s, i + 1, class) ELSE i - 1

Max(S) == CHOOSE x \in S : \A y \in S : x >= y

\* ([a-z-_]+)([\d-_.]+)([a-zA-Z0-9-_.]+) matched from position i: the last
\* positions the second group can take after a first group that ends at e1
VersionEnds(s, e1) ==
    {e2 \in (e1 + 1)..RunEnd(s, e1 + 1, VersionClass) :
        e2 + 1 <= Len(s) /\ s[e2 + 1] \in QualifierClass}
\* the last positions the first group can take
NameEnds(s, i) == {e1 \in i..RunEnd(s, i, NameClass) : VersionEnds(s, e1) # {}}
MatchesAt(s, i) == NameEnds(s, i) # {}

\* the match the engine reports at i, by the last position of its three
\* groups: every + is greedy, an earlier group's preference before a later one's
FirstMatch(s, i) ==
    LET e1 == Max(NameEnds(s, i))
        e2 == Max(VersionEnds(s, e1))
    IN <<e1, e2, RunEnd(s, e2 + 1, QualifierClass)>>

SubStr(s, from, to) == IF from > to THEN <<>> ELSE SubSeq(s, from, to)

\* the expansion of the templates `$1` (<<1>>) and `$2$3` (<<2, 3>>) for a match
Group(s, i, m, g) ==
    CASE g = 1 -> SubStr(s, i, m[1])
      [] g = 2 -> SubStr(s, m[1] + 1, m[2])
      [] OTHER -> SubStr(s, m[2] + 1, m[3])
RECURSIVE Expand(_, _, _, _)
Expand(template, s, i, m) ==
    IF template = <<>> THEN <<>>
    ELSE Group(s, i, m, Head(template)) \o Expand(Tail(template), s, i, m)

\* ModuleIdRegexp.ReplaceAllString(s, template) from position i on: every
\* non-overlapping match, leftmost first, is replaced, the other text is copied
RECURSIVE ReplaceAllFrom(_, _, _)
ReplaceAllFrom(s, i, template) ==
    IF i > Len(s) THEN <<>>
    ELSE IF MatchesAt(s, i)
         THEN LET m == FirstMatch(s, i) IN
              Expand(template, s, i, m) \o ReplaceAllFrom(s, m[3] + 1, template)
         ELSE <<s[i]>> \o ReplaceAllFrom(s, i + 1, template)
ReplaceAllString(s, template) == ReplaceAllFrom(s, 1, template)

\* TrimModuleName: the name without its trailing separator
TrimModuleName(name) ==
    IF name # <<>> /\ name[Len(name)] \in {"-", "_"}
    THEN SubStr(name, 1, Len(name) - 1) ELSE name

\* the ids of the examples, and every id of a small alphabet
Okapi == <<"o", "k", "a", "p", "i">>
ModUsersId == <<"m", "o", "d", "-", "u", "s", "e", "r", "s", "-", "1", "9", ".", "3", ".", "0">>
NotAValidId == <<"n", "o", "t", "-", "a", "-", "v", "a", "l", "i", "d", "-", "i", "d">>
IdAlphabet == {"m", "-", "_", "1", ".", "A", "+"}
ModuleIds ==
    {Okapi, ModUsersId, NotAValidId}
        \cup UNION {[1..k -> IdAlphabet] : k \in 1..MaxIdLen}

\* a RegistryModule as decoded from the registry: the id alone
RegistryModule(id) == [id |-> id, name |-> <<>>, version |-> <<>>, sidecarName |-> <<>>]

\* a loop body without the `continue` for the reserved id
ExtractOneAlsoOkapi(module) ==
    LET name == TrimModuleName(ReplaceAllString(module.id, <<1>>)) IN
    [id |-> module.id,
     name |-> name,
     version |-> ReplaceAllString(module.id, <<2, 3>>),
     sidecarName |-> name \o <<"-", "s", "c">>]

\* the body of the loop over registryModules for one module
ExtractOne(module) ==
    IF module.id = Okapi THEN module
    ELSE LET name == TrimModuleName(ReplaceAllString(module.id, <<1>>)) IN
         [id |-> module.id,
          name |-> name,
          version |-> ReplaceAllString(module.id, <<2, 3>>),
          sidecarName |-> name \o <<"-", "s", "c">>]

\* ExtractModuleNameAndVersion: no value is returned and nothing panics
ExtractModuleNameAndVersion ==
    /\ run = "running"
    /\ "ExtractModuleNameAndVersion" \notin tdone
    /\ registryModules' = [i \in DOMAIN registryModules |-> ExtractOne(registryModules[i])]
    /\ tdone' = tdone \cup {"ExtractModuleNameAndVersion"}
    /\ UNCHANGED <<cfgVars, platVars, healthVars, userVars, attachVars, calls, run, assemblerVars, discoveryArgs>>

\* the registries hold one module of any id, or the reserved id beside one
RegistryLists ==
    {<<RegistryModule(id)>> : id \in ModuleIds}
        \cup {<<RegistryModule(Okapi), RegistryModule(id)>> : id \in {ModUsersId, NotAValidId}}

InitResolver ==
    /\ cfgTenants = {"diku"}
    /\ cfgRoles = DefaultRolesConfig
    /\ platTenants = <<>>
    /\ DefaultPlatform
    /\ AttachVarsIdle
    /\ HealthIdle
    /\ UsersIdle
    /\ tdone = {}
    /\ run = "running"
    /\ AssemblerIdle
    /\ discoveryArgs = NoDiscoveryArgs
    /\ registryModules \in RegistryLists

NextResolver == ExtractModuleNameAndVersion

SpecResolver == InitResolver /\ [][NextResolver]_vars

\* ---- CreateApplications, on the modules ExtractModuleNameAndVersion resolved
\* and any backend and frontend configuration
ManagementModulePattern == <<"m", "g", "r", "-">>

\* strings.Contains
StringsContains(str, substr) ==
    \E i \in 1..(Len(str) - Len(substr) + 1) : SubStr(str, i, i + Len(substr) - 1) = substr

\* strconv.Itoa of a port
DecimalDigits == <<"0", "1", "2", "3", "4", "5", "6", "7", "8", "9">>
RECURSIVE Itoa(_)
Itoa(n) == IF n < 10 THEN <<DecimalDigits[n + 1]>> ELSE Itoa(n \div 10) \o <<DecimalDigits[(n % 10) + 1]>>

\* the zero value a map lookup yields for a missing key; a nil *string is <<>>
NilVersion == <<>>
ZeroModule == [DeployModule |-> FALSE, ModuleVersion |-> NilVersion, ModuleServerPort |-> 0]
LookupModule(modulesMap, name) ==
    IF name \in DOMAIN modulesMap THEN modulesMap[name] ELSE ZeroModule

\* a lookup that inserts the zero value for a missing key
MapAfterLookupInserting(modulesMap, name) ==
    [n \in DOMAIN modulesMap \cup {name} |-> LookupModule(modulesMap, n)]

\* the map after `module, ok := modulesMap[name]`: indexing reads, a missing
\* key is not inserted
MapAfterLookup(modulesMap, name) == modulesMap

\* the map after the lookups of the loop over the registry modules, which are
\* made for every module whose name does not hold the management pattern
RECURSIVE MapAfterLookups(_, _)
MapAfterLookups(modulesMap, modules) ==
    IF modules = <<>> THEN modulesMap
    ELSE MapAfterLookups(
            IF StringsContains(Head(modules).name, ManagementModulePattern)
            THEN modulesMap ELSE MapAfterLookup(modulesMap, Head(modules).name),
            Tail(modules))

\* the condition of `continue`: && binds tighter than ||
SkipsModule(okBackend, backendModule, okFrontend, frontendModule) ==
    \/ (~okBackend /\ ~okFrontend)
    \/ (okBackend /\ ~backendModule.DeployModule)
    \/ (okFrontend /\ ~frontendModule.DeployModule)

\* an override that takes the frontend's version when both give one
OverrideVersionFrontendFirst(module, okBackend, backendModule, okFrontend, frontendModule) ==
    IF \/ (okBackend /\ backendModule.ModuleVersion # NilVersion)
       \/ (okFrontend /\ frontendModule.ModuleVersion # NilVersion)
    THEN LET version == IF frontendModule.ModuleVersion # NilVersion
                        THEN frontendModule.ModuleVersion
                        ELSE backendModule.ModuleVersion
         IN [module EXCEPT !.version = version, !.id = module.name \o <<"-">> \o version]
    ELSE module

\* the version override: module.Version and module.Id are rewritten in place
OverrideVersion(module, okBackend, backendModule, okFrontend, frontendModule) ==
    IF \/ (okBackend /\ backendModule.ModuleVersion # NilVersion)
       \/ (okFrontend /\ frontendModule.ModuleVersion # NilVersion)
    THEN LET version == IF backendModule.ModuleVersion # NilVersion
                        THEN backendModule.ModuleVersion
                        ELSE frontendModule.ModuleVersion
         IN [module EXCEPT !.version = version, !.id = module.name \o <<"-">> \o version]
    ELSE module

\* dto.RegistryUrls[FolioRegistry] + "/_/proxy/modules/" + module.Id
FolioRegistryUrl == <<"h", "t", "t", "p", ":", "/", "/", "f", "o", "l", "i", "o", "-", "r", "e", "g", "i", "s", "t", "r", "y">>
ModuleDescriptorUrl(id) == FolioRegistryUrl \o <<"/", "_", "/", "p", "r", "o", "x", "y", "/", "m", "o", "d", "u", "l", "e", "s", "/">> \o id

\* "http://<sidecarName>.eureka:<serverPort>"
SidecarUrl(sidecarName, serverPort) ==
    <<"h", "t", "t", "p", ":", "/", "/">> \o sidecarName \o <<".", "e", "u", "r", "e", "k", "a", ":">> \o Itoa(serverPort)

\* the entry of "modules" or "uiModules": the url is set unless the descriptors
\* are fetched (<<>> when the key is absent)
ModuleEntry(module) ==
    [id |-> module.id, name |-> module.name, version |-> module.version,
     url |-> IF applicationFetchDescriptors THEN <<>> ELSE ModuleDescriptorUrl(module.id)]
DiscoveryEntry(module, serverPort) ==
    [id |-> module.id, name |-> module.name, version |-> module.version,
     location |-> SidecarUrl(module.sidecarName, serverPort)]

\* an `if okFrontend` in place of the `else if okFrontend`
IsFrontendEntryAlso(okBackend, okFrontend) == okFrontend

\* if okBackend {...} else if okFrontend {...}
IsBackendEntry(okBackend, okFrontend) == okBackend
IsFrontendEntry(okBackend, okFrontend) == ~okBackend /\ okFrontend

\* the loop over the registry modules from the i-th on; failAt is the module
\* whose descriptor the registry fails to deliver (0: none), which ends the run
\* since DoGetDecodeReturnAny is called with panicOnError = true
RECURSIVE AssembleFrom(_, _, _)
AssembleFrom(acc, i, failAt) ==
    IF i > Len(acc.registry) THEN acc
    ELSE LET module == acc.registry[i]
             okBackend == module.name \in DOMAIN backendModulesMap
             okFrontend == module.name \in DOMAIN frontendModulesMap
             backendModule == LookupModule(backendModulesMap, module.name)
             frontendModule == LookupModule(frontendModulesMap, module.name)
             rewritten == OverrideVersion(module, okBackend, backendModule,
                                          okFrontend, frontendModule)
             registry == [acc.registry EXCEPT ![i] = rewritten]
         IN
         IF StringsContains(module.name, ManagementModulePattern)
         THEN AssembleFrom(acc, i + 1, failAt)
         ELSE IF SkipsModule(okBackend, backendModule, okFrontend, frontendModule)
         THEN AssembleFrom(acc, i + 1, failAt)
         ELSE IF applicationFetchDescriptors /\ failAt = i
         THEN [acc EXCEPT !.registry = registry, !.failed = TRUE]
         ELSE AssembleFrom(
                [registry |-> registry,
                 backend |-> IF IsBackendEntry(okBackend, okFrontend)
                             THEN Append(acc.backend, ModuleEntry(rewritten))
                             ELSE acc.backend,
                 discovery |-> IF IsBackendEntry(okBackend, okFrontend)
                               THEN Append(acc.discovery,
                                      DiscoveryEntry(rewritten, backendModule.ModuleServerPort))
                               ELSE acc.discovery,
                 frontend |-> IF IsFrontendEntry(okBackend, okFrontend)
                              THEN Append(acc.frontend, ModuleEntry(rewritten))
                              ELSE acc.frontend,
                 failed |-> FALSE],
                i + 1, failAt)

Assemble(failAt) ==
    AssembleFrom([registry |-> registryModules, backend |-> <<>>, discovery |-> <<>>,
                  frontend |-> <<>>, failed |-> FALSE], 1, failAt)

\* a batch that is submitted whatever its length
SubmitsDiscoveryAlways(discovery) == TRUE

\* if len(discoveryModules) > 0
SubmitsDiscovery(discovery) == Len(discovery) > 0

\* POST /applications?check=true and POST /modules/discovery
PostApplication(acc) ==
    [op |-> "postApplication", check |-> TRUE, modules |-> acc.backend,
     uiModules |-> acc.frontend]
PostDiscovery(acc) == [op |-> "postDiscovery", discovery |-> acc.discovery]

\* CreateApplications: both POSTs are made with panicOnError = true, so a
\* request that fails ends the run
CreateApplications ==
    /\ run = "running"
    /\ "ExtractModuleNameAndVersion" \in tdone
    /\ "CreateApplications" \notin tdone
    /\ \E failAt \in 0..Len(registryModules), applicationOk \in BOOLEAN, discoveryOk \in BOOLEAN :
         LET acc == Assemble(failAt) IN
         /\ failAt # 0 => acc.failed
         /\ acc.failed => applicationOk /\ discoveryOk
         /\ ~applicationOk => discoveryOk
         /\ ~discoveryOk => SubmitsDiscovery(acc.discovery)
         /\ registryModules' = acc.registry
         /\ backendModules' = acc.backend
         /\ frontendModules' = acc.frontend
         /\ discoveryModules' = acc.discovery
         /\ calls' = IF acc.failed THEN calls
                     ELSE IF ~applicationOk THEN Append(calls, PostApplication(acc))
                     ELSE IF SubmitsDiscovery(acc.discovery)
                          THEN calls \o <<PostApplication(acc), PostDiscovery(acc)>>
                          ELSE Append(calls, PostApplication(acc))
         /\ appCreated' = IF acc.failed THEN "descriptorFetchFailed"
                          ELSE IF ~applicationOk THEN "applicationFailed"
                          ELSE IF ~discoveryOk THEN "discoveryFailed"
                          ELSE "yes"
         /\ run' = IF (acc.failed \/ ~applicationOk \/ ~discoveryOk) /\ LogErrorPanic
                   THEN "aborted" ELSE "running"
    /\ tdone' = tdone \cup {"CreateApplications"}
    /\ backendModulesMap' = MapAfterLookups(backendModulesMap, registryModules)
    /\ frontendModulesMap' = MapAfterLookups(frontendModulesMap, registryModules)
    /\ UNCHANGED <<cfgVars, platVars, healthVars, userVars, attachVars,
                   applicationFetchDescriptors, discoveryArgs>>

\* the registry of the run, and the configurations of its modules
UiId == <<"u", "i", "-", "1", ".", "0">>
MgrId == <<"m", "g", "r", "-", "a", "-", "1", ".", "0">>
ModUsersName == <<"m", "o", "d", "-", "u", "s", "e", "r", "s">>
UiName == <<"u", "i">>
MgrName == <<"m", "g", "r", "-", "a">>
OverrideVersions == {NilVersion, <<"2", ".", "0">>, <<"3", ".", "0">>}
ServerPorts == {8081}
ModuleConfigs ==
    [DeployModule : BOOLEAN, ModuleVersion : OverrideVersions, ModuleServerPort : ServerPorts]
ModulesMaps ==
    UNION {[names -> ModuleConfigs] : names \in SUBSET {ModUsersName, UiName}}
        \cup {[names \in {MgrName} |->
                 [DeployModule |-> TRUE, ModuleVersion |-> NilVersion, ModuleServerPort |-> 8081]]}

InitAssembler ==
    /\ cfgTenants = {"diku"}
    /\ cfgRoles = DefaultRolesConfig
    /\ platTenants = <<>>
    /\ DefaultPlatform
    /\ AttachVarsIdle
    /\ HealthIdle
    /\ UsersIdle
    /\ tdone = {}
    /\ run = "running"
    /\ registryModules = <<RegistryModule(Okapi), RegistryModule(ModUsersId),
                           RegistryModule(UiId), RegistryModule(MgrId)>>
    /\ backendModulesMap \in ModulesMaps
    /\ frontendModulesMap \in ModulesMaps
    /\ applicationFetchDescriptors \in BOOLEAN
    /\ backendModules = <<>>
    /\ frontendModules = <<>>
    /\ discoveryModules = <<>>
    /\ appCreated = "no"
    /\ discoveryArgs = NoDiscoveryArgs

NextAssembler == ExtractModuleNameAndVersion \/ CreateApplications

SpecAssembler == InitAssembler /\ [][NextAssembler]_vars

\* ---- attachCapabilitySets with its loops running on: the for loop of
\* pollCapabilitySetsCreation goes on to its next iteration while it has one
SpecPolling == Init /\ [][Next]_vars /\ WF_vars(Next)

\* ---- capability binding beside the command that detaches: the capability
\* sets of the configured roles of a tenant are detached when that command is run
DetachCapabilitySets ==
    /\ run = "running"
    /\ "DetachCapabilitySetsFromRoles" \notin tdone
    /\ \E tenant \in cfgTenants : calls' = calls \o DetachCapabilitySetsFromRoles(tenant)
    /\ tdone' = tdone \cup {"DetachCapabilitySetsFromRoles"}
    /\ UNCHANGED <<cfgVars, platVars, healthVars, userVars, attachVars, run, registryModules,
                   assemblerVars, discoveryArgs>>

NextRebind == Bind \/ LoopDone \/ DetachCapabilitySets

SpecRebind == InitBind /\ [][NextRebind]_vars

\* ---- UpdateModuleDiscovery, called once with any id, sidecar URL, restore
\* flag and server port
\* strings.ReplaceAll(id, ":", "-")
ReplaceColons(id) == [i \in DOMAIN id |-> IF id[i] = ":" THEN "-" ELSE id[i]]

\* a default that is used only when no URL is given
UsesDefaultUrlOnlyIfEmpty(sidecarUrl, restore) == sidecarUrl = <<>>

\* if sidecarUrl == "" || restore
UsesDefaultUrl(sidecarUrl, restore) == sidecarUrl = <<>> \/ restore

\* fmt.Sprintf("http://%s-sc.eureka:%s", name, portServer)
DefaultSidecarUrl(name, portServer) == <<"h", "t", "t", "p", ":", "/", "/">> \o name \o <<"-", "s", "c", ".", "e", "u", "r", "e", "k", "a", ":">> \o portServer

\* the body of PUT /modules/<id>/discovery
DiscoveryRecord(args) ==
    LET id == ReplaceColons(args.id)
        name == TrimModuleName(ReplaceAllString(id, <<1>>))
    IN [op |-> "putDiscovery",
        id |-> id,
        name |-> name,
        version |-> ReplaceAllString(id, <<2, 3>>),
        location |-> IF UsesDefaultUrl(args.sidecarUrl, args.restore)
                     THEN DefaultSidecarUrl(name, args.portServer)
                     ELSE args.sidecarUrl]

UpdateModuleDiscovery ==
    /\ run = "running"
    /\ "UpdateModuleDiscovery" \notin tdone
    /\ calls' = Append(calls, DiscoveryRecord(discoveryArgs))
    /\ tdone' = tdone \cup {"UpdateModuleDiscovery"}
    /\ UNCHANGED <<cfgVars, platVars, healthVars, userVars, attachVars, run, registryModules,
                   assemblerVars, discoveryArgs>>

ModUsersColonId == <<"m", "o", "d", "-", "u", "s", "e", "r", "s", ":", "1", "9", ".", "3", ".", "0">>
DiscoveryIds ==
    {ModUsersId, ModUsersColonId}
        \cup UNION {[1..k -> {"m", "-", ":", "1", "."}] : k \in 1..MaxIdLen}
ExplicitUrl == <<"h", "t", "t", "p", ":", "/", "/", "h", "o", "s", "t", ":", "1">>
DiscoveryArgs ==
    [id : DiscoveryIds, sidecarUrl : {<<>>, ExplicitUrl}, restore : BOOLEAN,
     portServer : {<<"8", "0", "8", "1">>, <<"9", "1", "3", "0">>}]

InitDiscovery ==
    /\ cfgTenants = {"diku"}
    /\ cfgRoles = DefaultRolesConfig
    /\ platTenants = <<>>
    /\ DefaultPlatform
    /\ AttachVarsIdle
    /\ HealthIdle
    /\ UsersIdle
    /\ tdone = {}
    /\ run = "running"
    /\ registryModules = <<>>
    /\ AssemblerIdle
    /\ discoveryArgs \in DiscoveryArgs

NextDiscovery == UpdateModuleDiscovery

SpecDiscovery == InitDiscovery /\ [][NextDiscovery]_vars

\* ---- one deployment run from the registry to the users: the modules are
\* resolved and the application assembled, the tenants are entitled, the
\* capability sets are attached tenant by tenant and then the users created
DeploymentModulesMaps ==
    {[names \in {ModUsersName} |->
        [DeployModule |-> TRUE, ModuleVersion |-> v, ModuleServerPort |-> 8081]] :
     v \in {NilVersion, <<"2", ".", "0">>}}

InitDeployment ==
    /\ cfgTenants \in {{"diku"}, {"diku", "extra"}}
    /\ cfgRoles = DefaultRolesConfig
    /\ platTenants = <<"diku", "extra">>
    /\ DefaultPlatform
    /\ AttachInit
    /\ HealthIdle
    /\ cfgUsers \in [Usernames -> [tenant : {"diku", "extra"}, roles : {<<"admin">>}]]
    /\ existingTenant = "diku"
    /\ upc = "run"
    /\ usersLeft = Usernames
    /\ lookups = <<>>
    /\ tdone = {}
    /\ run = "running"
    /\ registryModules = <<RegistryModule(Okapi), RegistryModule(ModUsersId),
                           RegistryModule(UiId), RegistryModule(MgrId)>>
    /\ backendModulesMap \in DeploymentModulesMaps
    /\ frontendModulesMap = <<>>
    /\ applicationFetchDescriptors = FALSE
    /\ backendModules = <<>>
    /\ frontendModules = <<>>
    /\ discoveryModules = <<>>
    /\ appCreated = "no"
    /\ discoveryArgs = NoDiscoveryArgs

\* the stages of the run that have ended
Entitled == run = "running" /\ "CreateTenantEntitlement" \in tdone
Attached == Entitled /\ pc = "done"

NextDeployment ==
    \/ ExtractModuleNameAndVersion
    \/ CreateApplications
    \/ ("CreateApplications" \in tdone /\ CreateTenantEntitlement)
    \/ (Entitled /\ LoopEnter)
    \/ (Entitled /\ LoopSkip)
    \/ (Entitled /\ Tick)
    \/ (Entitled /\ Bind)
    \/ (Entitled /\ LoopDone)
    \/ (Attached /\ \E u \in Usernames : VisitUser(u))
    \/ (Attached /\ UsersDone)

SpecDeployment == InitDeployment /\ [][NextDeployment]_vars

\* ---- CreateRoles and RemoveRoles of one tenant
\* cases.Title(language.English).String on the configured role keys
Title(role) ==
    CASE role = "admin" -> "Admin"
      [] role = "user" -> "User"
      [] OTHER -> role

\* the id the platform gives the role it creates under a name
NewRoleId(name) ==
    CASE name = "Admin" -> "r1"
      [] name = "User" -> "r2"
      [] OTHER -> "r9"

\* the keys of the roles configuration whose tenant is existingTenant, in one
\* of the orders `for role, value := range rolesMap` can take
RoleKeysOfTenant(tenant) == {k \in DOMAIN cfgRoles : cfgRoles[k].tenant = tenant}
RangeOrders(keys) == {order \in DistinctSeqs(keys, Cardinality(keys)) : Len(order) = Cardinality(keys)}

\* POST /roles with {"name": caser.String(role), "description": "Default"}
CreateRoleCall(tenant, role, created) ==
    [op |-> "createRole", tenant |-> tenant, name |-> Title(role), id |-> NewRoleId(Title(role)),
     created |-> created]

\* CreateRoles: one POST per configured role of the tenant; failAt is the role
\* whose POST fails (0: none), which ends the run when panicOnError is set and
\* is passed over otherwise
CreateRoles ==
    /\ run = "running"
    /\ "CreateRoles" \notin tdone
    /\ \E order \in RangeOrders(RoleKeysOfTenant(existingTenant)) :
       \E failAt \in 0..Len(order), panicOnError \in BOOLEAN :
         LET aborts == failAt # 0 /\ panicOnError /\ LogErrorPanic
             posted == IF aborts THEN SubSeq(order, 1, failAt) ELSE order
             made == [i \in DOMAIN posted |->
                        CreateRoleCall(existingTenant, posted[i], i # failAt)]
             createdRoles == SelectSeq(made, LAMBDA c : c.created)
         IN
         /\ failAt = 0 => panicOnError
         /\ calls' = calls \o made
         /\ platRoles' = [platRoles EXCEPT ![existingTenant] =
                            @ \o [i \in DOMAIN createdRoles |->
                                    [id |-> createdRoles[i].id, name |-> createdRoles[i].name]]]
         /\ run' = IF aborts THEN "aborted" ELSE "running"
    /\ tdone' = tdone \cup {"CreateRoles"}
    /\ UNCHANGED <<cfgVars, platTenants, platApps, platCapSets, healthVars, userVars,
                   attachVars, registryModules, assemblerVars, discoveryArgs>>

\* if rolesMap[roleName] == nil { continue }: the name is looked up as the
\* platform returns it
SelectedForDeletion(role) == role.name \in DOMAIN cfgRoles

\* DELETE /roles-keycloak/roles/<id> for every role of the tenant that is selected
DeleteRoleCalls(tenant) ==
    LET selected == SelectSeq(GetRoles(tenant), SelectedForDeletion) IN
    [i \in DOMAIN selected |->
        [op |-> "deleteRole", tenant |-> tenant, name |-> selected[i].name,
         id |-> selected[i].id, created |-> FALSE]]

\* RemoveRoles: DoDelete is called with panicOnError = false; the platform
\* drops the roles it was asked to delete
RemoveRoles ==
    /\ run = "running"
    /\ "RemoveRoles" \notin tdone
    /\ calls' = calls \o DeleteRoleCalls(existingTenant)
    /\ platRoles' = [platRoles EXCEPT ![existingTenant] =
                       SelectSeq(@, LAMBDA role : ~SelectedForDeletion(role))]
    /\ tdone' = tdone \cup {"RemoveRoles"}
    /\ UNCHANGED <<cfgVars, platTenants, platApps, platCapSets, healthVars, userVars,
                   attachVars, run, registryModules, assemblerVars, discoveryArgs>>

\* the roles a tenant holds before the run: none, one the configuration does
\* not name, or one under a lower-case name
ExistingRoleLists ==
    {<<>>, <<[id |-> "r3", name |-> "Guest"]>>, <<[id |-> "r4", name |-> "admin"]>>}

InitRoles ==
    /\ cfgTenants = {"diku", "extra"}
    /\ cfgRoles \in [RoleKeys -> [tenant : {"diku", "extra"}, capabilitySets : {<<"all">>}]]
    /\ platTenants = <<"diku", "extra">>
    /\ \E roles \in ExistingRoleLists : platRoles = [t \in TenantNames |-> roles]
    /\ platApps = <<"app-platform-1.0.0">>
    /\ platCapSets = <<>>
    /\ AttachVarsIdle
    /\ HealthIdle
    /\ cfgUsers = <<>>
    /\ existingTenant \in {"diku", "extra"}
    /\ upc = "idle"
    /\ usersLeft = {}
    /\ lookups = <<>>
    /\ DeployIdle

\* the roles of the tenant are created, and removed by a later undeployment
NextRoles ==
    \/ CreateRoles
    \/ ("CreateRoles" \in tdone /\ RemoveRoles)

SpecRoles == InitRoles /\ [][NextRoles]_vars

\* ------------------------------------------------------------------ claims
TickedTransient ==
    /\ ~lastTick.none
    /\ Len(lastTick.sample.stderr) > 0
    /\ IsTransient(lastTick.sample.stderr)
TickedOtherFailure ==
    /\ ~lastTick.none
    /\ Len(lastTick.sample.stderr) > 0
    /\ ~IsTransient(lastTick.sample.stderr)
TickedNonNumeric ==
    /\ ~lastTick.none
    /\ Len(lastTick.sample.stderr) = 0
    /\ ~ParseLag(lastTick.sample.stdout).ok
TickedParsed(v) ==
    /\ ~lastTick.none
    /\ Len(lastTick.sample.stderr) = 0
    /\ ParseLag(lastTick.sample.stdout) = [ok |-> TRUE, val |-> v]

\* C1: a tick that reports a transient condition after a lag was parsed keeps
\* that lag and leaves the barrier Polling; on the samples 5, 5, rebalancing,
\* 2, 0 the barrier is Polling after each of the first four (holding 5 after
\* the third), Drained after the fifth, and never aborts.
C1_TransientTickKeepsLagAndPolls ==
    /\ (TickedTransient /\ lastParsed # NoLag) =>
          (barrier[lastTick.tenant] = "Polling" /\ lagTick = lastParsed[1])
    /\ matched \in 1..4 => barrier[lastTick.tenant] = "Polling"
    /\ matched = 3 => lagTick = 5
    /\ matched = 5 => barrier[lastTick.tenant] = "Drained"

C3_DrainedOnlyOnParsedZero ==
    /\ (~lastTick.none /\ barrier[lastTick.tenant] = "Drained") => TickedParsed(0)
    /\ (pc = "bind" /\ lastParsed # NoLag) => ~(lastParsed[1] > 0)

\* C4: capability binding of a tenant begins only once that tenant's barrier is
\* Drained.
C4_BindOnlyAfterDrained ==
    /\ \A t \in bound : barrier[t] = "Drained"
    /\ pc = "bind" => barrier[CurTenant] = "Drained"

C4_TenantBound == \E t \in bound : barrier[t] = "Drained" /\ ~lastTick.none

\* the ids of the capability sets of every registered application
AllCapabilitySetIds ==
    {platCapSets[i].id :
        i \in {j \in DOMAIN platCapSets : platCapSets[j].applicationId \in Range(platApps)}}
NoDuplicates(s) == \A i, j \in DOMAIN s : i # j => s[i] # s[j]

\* C10: for a role configured with exactly ["all"], the ids submitted are the
\* union of the capability sets of every registered application, none twice.
C10_AllSubmitsUnion ==
    \A t \in bound : \A i \in DOMAIN platRoles[t] :
        LET role == platRoles[t][i]
            key == ToLower(role.name) IN
        (/\ key \in DOMAIN cfgRoles
         /\ cfgRoles[key].tenant = t
         /\ cfgRoles[key].capabilitySets = <<"all">>
         /\ AllCapabilitySetIds # {})
        => \E j \in DOMAIN calls :
              /\ calls[j].op = "attachCapabilitySets"
              /\ calls[j].tenant = t
              /\ calls[j].roleId = role.id
              /\ Range(calls[j].capabilitySetIds) = AllCapabilitySetIds
              /\ NoDuplicates(calls[j].capabilitySetIds)

\* C5: no module is probed more than HealtcheckMaxAttempts times; a probe gives
\* up only after that many unhealthy attempts, and after fewer it is still
\* probing with the remaining attempts; a healthy attempt, the last one
\* included, reports the module healthy.
C5_AtMostMaxAttempts ==
    \A m \in Modules :
        /\ probes[m] <= HealtcheckMaxAttempts
        /\ hpc[m] \in {"exhausted", "aborted"} =>
              (probes[m] = HealtcheckMaxAttempts /\ lastProbe[m] = "unhealthy")
        /\ lastProbe[m] = "healthy" => hpc[m] = "healthy"
        /\ lastProbe[m] = "unhealthy" =>
              /\ hpc[m] \in {"probing", "exhausted", "aborted"}
              /\ hpc[m] = "probing" <=> probes[m] < HealtcheckMaxAttempts

C5_HealthyOnLastAndExhausted ==
    /\ hpc["mod-users"] = "healthy"
    /\ probes["mod-users"] = HealtcheckMaxAttempts
    /\ hpc["mod-orders"] = "aborted"
    /\ probes["mod-orders"] = HealtcheckMaxAttempts

\* C6: once a probe has exhausted its attempts the caller never gets past the
\* join.
C6_JoinHeldAfterExhaustion ==
    (\E m \in Modules : hpc[m] \in {"exhausted", "aborted"}) => orch # "past"

\* C7: when a probe has exhausted its attempts, a sibling still in flight is
\* not stopped: it can make its next attempt.
C7_SiblingsKeepProbing ==
    (\E m \in Modules : hpc[m] \in {"exhausted", "aborted"}) =>
        \A n \in Modules : hpc[n] = "probing" => ENABLED ProbeAttempt(n)

FoundCount(i) == Len(lookups[i].found.roles)

\* C8: a role lookup that finds no record does not abort the run.
C8_ZeroRecordsOnlyWarns ==
    \A i \in DOMAIN lookups : FoundCount(i) = 0 => upc # "aborted"

\* C9: a role lookup that finds more than one record aborts the run and hands
\* no record to its caller: no role is attached for that user.
C9_AmbiguousLookupAborts ==
    \A i \in DOMAIN lookups :
        FoundCount(i) > 1 =>
            /\ upc = "aborted"
            /\ lookups[i].panic
            /\ lookups[i].role.nil
            /\ calls[Len(calls)].op # "attachRoles"

C9_AmbiguousLookupSeen ==
    \E i \in DOMAIN lookups : FoundCount(i) > 1 /\ i > 1 /\ upc = "aborted"

\* C11: RemoveTenants and RemoveTenantEntitlements issue a delete only for
\* tenants whose name is in the configured tenant set, whatever tenants the
\* platform reports
C11_DeletesOnlyConfiguredTenants ==
    \A i \in DOMAIN calls :
        calls[i].op \in {"deleteTenant", "deleteEntitlement"} => calls[i].tenant \in cfgTenants

\* both removals ran on a platform that reports a tenant outside the
\* configuration, and each deleted a configured tenant
C11_RemovedBesideUnconfigured ==
    /\ tdone = {"RemoveTenants", "RemoveTenantEntitlements"}
    /\ \E i \in DOMAIN platTenants : platTenants[i] \notin cfgTenants
    /\ \E i \in DOMAIN calls : calls[i].op = "deleteTenant"
    /\ \E i \in DOMAIN calls : calls[i].op = "deleteEntitlement"

\* the grammar of a module id: a name of lowercase letters, hyphens and
\* underscores, then the version, which starts at the first digit and goes on
\* with at least one more character of the qualifier
FirstDigit(id) ==
    CHOOSE k \in DOMAIN id : id[k] \in DigitChars /\ \A j \in 1..(k - 1) : id[j] \notin DigitChars
ValidId(id) ==
    \E k \in 2..(Len(id) - 1) :
        /\ id[k] \in DigitChars
        /\ AllIn(id, 1, k - 1, LowerLetters \cup {"-", "_"})
        /\ AllIn(id, k, Len(id), QualifierClass)
Extracted == "ExtractModuleNameAndVersion" \in tdone

\* C12: an identifier that does not match the grammar, such as not-a-valid-id,
\* is answered by an explicit failure, never by a module whose fields were
\* filled in while the run goes on
C12_MalformedIdSignalsFailure ==
    \A i \in DOMAIN registryModules :
        LET module == registryModules[i] IN
        (Extracted /\ module.id # Okapi /\ ~ValidId(module.id)) => run = "aborted"

\* C13: every valid identifier resolves to the name part without its trailing
\* separator, the whole remaining suffix as version, and name + "-sc" as
\* sidecar name
C13_ValidIdResolved ==
    \A i \in DOMAIN registryModules :
        LET module == registryModules[i] IN
        (Extracted /\ ValidId(module.id)) =>
            LET k == FirstDigit(module.id)
                namePart == SubSeq(module.id, 1, k - 1)
                name == IF namePart[k - 1] \in {"-", "_"}
                        THEN SubStr(namePart, 1, k - 2) ELSE namePart
            IN /\ module.name = name
               /\ module.version = SubSeq(module.id, k, Len(module.id))
               /\ module.sidecarName = name \o <<"-", "s", "c">>

\* mod-users-19.3.0 was resolved to mod-users, 19.3.0 and mod-users-sc
C13_ModUsersResolved ==
    /\ Extracted
    /\ \E i \in DOMAIN registryModules :
         /\ registryModules[i].id = ModUsersId
         /\ registryModules[i].name = <<"m", "o", "d", "-", "u", "s", "e", "r", "s">>
         /\ registryModules[i].version = <<"1", "9", ".", "3", ".", "0">>
         /\ registryModules[i].sidecarName =
                <<"m", "o", "d", "-", "u", "s", "e", "r", "s", "-", "s", "c">>

\* the names of the entries of a list CreateApplications built
EntryNames(entries) == {entries[i].name : i \in DOMAIN entries}
EntryIds(entries) == {entries[i].id : i \in DOMAIN entries}
\* CreateApplications went through the whole registry
Assembled == appCreated \in {"yes", "applicationFailed", "discoveryFailed"}

\* C14: the reserved id okapi is never resolved (name, version and sidecar name
\* stay untouched) and no entry of the backend list, the frontend list or the
\* discovery batch has that id
C14_OkapiNeverResolvedNorListed ==
    /\ \A i \in DOMAIN registryModules :
         registryModules[i].id = Okapi =>
             /\ registryModules[i].name = <<>>
             /\ registryModules[i].version = <<>>
             /\ registryModules[i].sidecarName = <<>>
    /\ Okapi \notin EntryIds(backendModules) \cup EntryIds(frontendModules)
                        \cup EntryIds(discoveryModules)

\* the application was created from a registry that holds okapi beside modules
\* that were listed
C14_CreatedBesideOkapi ==
    /\ appCreated = "yes"
    /\ \E i \in DOMAIN registryModules : registryModules[i].id = Okapi
    /\ backendModules # <<>>
    /\ frontendModules # <<>>

\* C16: a module found in neither configuration map is skipped; a module in
\* both maps is skipped only if both deploy flags are false, and registered
\* when one of the two is true
C16_SkippedOnlyIfBothDecline ==
    Assembled =>
        \A i \in DOMAIN registryModules :
            LET name == registryModules[i].name
                okBackend == name \in DOMAIN backendModulesMap
                okFrontend == name \in DOMAIN frontendModulesMap
                registered == name \in EntryNames(backendModules) \cup EntryNames(frontendModules)
            IN (registryModules[i].id # Okapi
                    /\ ~StringsContains(name, ManagementModulePattern)) =>
                   /\ (~okBackend /\ ~okFrontend) => ~registered
                   /\ (okBackend /\ okFrontend) =>
                         (registered <=> (backendModulesMap[name].DeployModule
                                            \/ frontendModulesMap[name].DeployModule))

\* C17: no module is in both the backend and the frontend list, and the
\* discovery batch has exactly one entry per backend entry and none for a
\* frontend module
C17_OneListAndDiscoveryOfBackend ==
    /\ EntryNames(backendModules) \cap EntryNames(frontendModules) = {}
    /\ Len(discoveryModules) = Len(backendModules)
    /\ \A i \in DOMAIN discoveryModules :
         /\ discoveryModules[i].id = backendModules[i].id
         /\ discoveryModules[i].name = backendModules[i].name
    /\ EntryNames(discoveryModules) \cap EntryNames(frontendModules) = {}

\* a module configured in both maps was registered, beside a frontend module
C17_ModuleOfBothMapsListed ==
    /\ appCreated = "yes"
    /\ frontendModules # <<>>
    /\ \E i \in DOMAIN backendModules :
         /\ backendModules[i].name \in DOMAIN backendModulesMap
         /\ backendModules[i].name \in DOMAIN frontendModulesMap

\* C18: the descriptor is submitted with check=true before the discovery
\* batch; the batch is submitted if and only if it is non-empty, and never
\* when the descriptor's submission aborted the run
C18_DescriptorThenDiscovery ==
    LET discoveryPosts == {i \in DOMAIN calls : calls[i].op = "postDiscovery"} IN
    /\ \A i \in discoveryPosts :
         /\ i > 1
         /\ calls[i - 1].op = "postApplication"
         /\ calls[i - 1].check
         /\ calls[i].discovery # <<>>
    /\ appCreated \in {"yes", "discoveryFailed"} =>
         (discoveryPosts # {} <=> discoveryModules # <<>>)
    /\ appCreated \in {"applicationFailed", "descriptorFetchFailed"} => discoveryPosts = {}

\* both submissions were made, in this order
C18_BothSubmitted ==
    /\ appCreated = "yes"
    /\ Len(calls) = 2
    /\ calls[1].op = "postApplication"
    /\ calls[2].op = "postDiscovery"
    /\ calls[2].discovery = discoveryModules

\* C15: the consumer-lag polling of a tenant is attempt-bounded: it ends after
\* finitely many ticks, by the lag reaching zero or by a fatal abort of the run
C15_PollingEnds ==
    \A t \in TenantNames : (barrier[t] = "Polling") ~> (barrier[t] \in {"Drained", "Aborted"})

\* the attach calls issued for a role of a tenant
AttachCallsOf(t, roleId) ==
    {j \in DOMAIN calls : /\ calls[j].op = "attachCapabilitySets"
                          /\ calls[j].tenant = t
                          /\ calls[j].roleId = roleId}

\* C19: binding is a full replace: before the attach call of a role is issued,
\* the capability sets of that role were detached
C19_DetachedBeforeAttached ==
    \A j \in DOMAIN calls :
        calls[j].op = "attachCapabilitySets" =>
            \E k \in 1..(j - 1) :
                /\ calls[k].op = "detachCapabilitySets"
                /\ calls[k].tenant = calls[j].tenant
                /\ calls[k].roleId = calls[j].roleId

\* the ids AttachCapabilitySetsToRoles resolves for a role of the tenant
ResolvedIds(role) ==
    CapabilitySetIdsOf(CapabilitySetsMapList(cfgRoles[ToLower(role.name)].capabilitySets))
BoundRole(t, role) ==
    /\ ToLower(role.name) \in DOMAIN cfgRoles
    /\ cfgRoles[ToLower(role.name)].tenant = t

\* C20: a role whose resolved id list is empty gets no attach call, the run
\* goes on, and the other roles are still processed
C20_EmptyIdListSkipsAttach ==
    \A t \in bound :
        /\ pc \in {"loop", "done"}
        /\ \A i \in DOMAIN platRoles[t] :
             LET role == platRoles[t][i] IN
             BoundRole(t, role) =>
                 IF ResolvedIds(role) = <<>>
                 THEN AttachCallsOf(t, role.id) = {}
                 ELSE \E j \in AttachCallsOf(t, role.id) :
                          calls[j].capabilitySetIds = ResolvedIds(role)

\* a role with an empty id list was skipped and the role after it attached
C20_SkippedThenAttached ==
    \E t \in bound : \E i, k \in DOMAIN platRoles[t] :
        /\ i < k
        /\ BoundRole(t, platRoles[t][i])
        /\ ResolvedIds(platRoles[t][i]) = <<>>
        /\ BoundRole(t, platRoles[t][k])
        /\ AttachCallsOf(t, platRoles[t][k].id) # {}

\* the positions of the calls of one kind issued for a user
CallsFor(op, username) ==
    {i \in DOMAIN calls : calls[i].op = op /\ calls[i].username = username}
\* the ids the lookups of the last user resolved, in order
RECURSIVE ResolvedRoleIds(_)
ResolvedRoleIds(made) ==
    IF made = <<>> THEN <<>>
    ELSE (IF made[1].role.nil \/ made[1].role.id = "" THEN <<>> ELSE <<made[1].role.id>>)
         \o ResolvedRoleIds(Tail(made))
\* the users the loop reached, without the one whose role lookup ended the run
Provisioned ==
    {u \in Usernames \ usersLeft :
        /\ cfgUsers[u].tenant = existingTenant
        /\ ~(upc = "aborted" /\ calls[Len(calls)].username = u)}

DiscoveryPuts == {i \in DOMAIN calls : calls[i].op = "putDiscovery"}
\* the name of a valid id: the part before the first digit, without its
\* trailing separator
NameOfValidId(id) ==
    LET namePart == SubSeq(id, 1, FirstDigit(id) - 1) IN
    IF namePart[Len(namePart)] \in {"-", "_"}
    THEN SubStr(namePart, 1, Len(namePart) - 1) ELSE namePart

\* C22: UpdateModuleDiscovery submits the explicit URL when it is non-empty and
\* restore is not set, else the default sidecar URL of the name of the
\* normalized id and the server port; one PUT is issued in every case
C22_LocationExplicitOrDefault ==
    "UpdateModuleDiscovery" \in tdone =>
        /\ Cardinality(DiscoveryPuts) = 1
        /\ \A i \in DiscoveryPuts :
             LET put == calls[i]
                 args == discoveryArgs
                 default == <<"h", "t", "t", "p", ":", "/", "/">> \o put.name
                              \o <<"-", "s", "c", ".", "e", "u", "r", "e", "k", "a", ":">>
                              \o args.portServer
             IN /\ Len(put.id) = Len(args.id)
                /\ \A k \in DOMAIN put.id :
                       put.id[k] = (IF args.id[k] = ":" THEN "-" ELSE args.id[k])
                /\ ValidId(put.id) => put.name = NameOfValidId(put.id)
                /\ put.location = IF args.sidecarUrl # <<>> /\ ~args.restore
                                  THEN args.sidecarUrl ELSE default

\* the default was restored over an explicit URL, for an id with a colon
C22_RestoredDefaultForColonId ==
    /\ "UpdateModuleDiscovery" \in tdone
    /\ discoveryArgs.id = ModUsersColonId
    /\ discoveryArgs.sidecarUrl # <<>>
    /\ discoveryArgs.restore
    /\ \E i \in DiscoveryPuts :
         calls[i].name = <<"m", "o", "d", "-", "u", "s", "e", "r", "s">>

\* the entitlement-create calls issued for a tenant
EntitlementCreatesOf(t) ==
    {i \in DOMAIN calls : calls[i].op = "createEntitlement" /\ calls[i].tenant = t}

\* C23: CreateTenantEntitlement issues one create call for each tenant that is
\* configured and reported by the platform, for the application name-version,
\* and none for any other tenant
C23_OneEntitlementPerSelectedTenant ==
    /\ \A i \in DOMAIN calls :
         calls[i].op = "createEntitlement" =>
            calls[i].applications =
               <<<<"a", "p", "p", "-", "p", "l", "a", "t", "f", "o", "r", "m", "-",
                   "1", ".", "0", ".", "0">>>>
    /\ \A t \in TenantNames :
         /\ Cardinality(EntitlementCreatesOf(t)) <= 1
         /\ (t \notin cfgTenants \/ t \notin Range(platTenants)) => EntitlementCreatesOf(t) = {}
         /\ ("CreateTenantEntitlement" \in tdone /\ t \in cfgTenants /\ t \in Range(platTenants))
                => Cardinality(EntitlementCreatesOf(t)) = 1

\* entitlements were created for one of two platform tenants, the other not
\* being configured, and for no tenant that is configured but not on the platform
C23_EntitledBesideOthers ==
    /\ "CreateTenantEntitlement" \in tdone
    /\ Len(platTenants) = 2
    /\ \E t \in cfgTenants : t \notin Range(platTenants)
    /\ \E i \in DOMAIN platTenants : platTenants[i] \notin cfgTenants
    /\ \E t \in TenantNames : EntitlementCreatesOf(t) # {}

\* C24: an attempt counts as healthy if and only if the text of the body
\* contains "OK" or the status field of the JSON body contains "UP"; a response
\* of neither shape, a JSON body without status included, counts as one
\* unhealthy attempt and does not end the wait
C24_HealthyIffEitherShape ==
    \A m \in Modules :
        lastResponse[m] # <<>> =>
            LET r == lastResponse[m][1] IN
            IF \/ ContainsWord(r.str, "OK")
               \/ (~r.map.nil /\ r.map.hasStatus /\ ContainsWord(r.map.status, "UP"))
            THEN lastProbe[m] = "healthy"
            ELSE lastProbe[m] = "unhealthy" /\ hpc[m] \in {"probing", "exhausted", "aborted"}

\* the probes that signalled the wait group
Signalled == {m \in Modules : hpc[m] \in {"healthy", "exhausted", "aborted"}}

\* C29: a probe signals the wait group once when it ends healthy or exhausted:
\* the counter is the number of probes that have not signalled, never negative,
\* and the join is released only after every probe signalled
C29_EachProbeSignalsOnce ==
    /\ waitCount = Cardinality(Modules) - Cardinality(Signalled)
    /\ waitCount >= 0
    /\ orch = "past" => Signalled = Modules

\* the join was released after one probe ended healthy and one exhausted
C29_ReleasedAfterBothSignalled ==
    /\ orch = "past"
    /\ \E m, n \in Modules : hpc[m] = "healthy" /\ hpc[n] = "exhausted"

\* the configuration view: the configured tenants, roles and users, the
\* configured modules and the application settings
ConfigurationView ==
    <<cfgTenants, cfgRoles, cfgUsers, backendModulesMap, frontendModulesMap,
      applicationFetchDescriptors>>

ConfiguredOverride(name) ==
    IF LookupModule(backendModulesMap, name).ModuleVersion # NilVersion
    THEN LookupModule(backendModulesMap, name).ModuleVersion
    ELSE LookupModule(frontendModulesMap, name).ModuleVersion

\* an entry carries the override of its module in its version and its id
CarriesOverride(entry) ==
    ConfiguredOverride(entry.name) # NilVersion =>
        /\ entry.version = ConfiguredOverride(entry.name)
        /\ entry.id = entry.name \o <<"-">> \o ConfiguredOverride(entry.name)

\* C26: a registered module with a configured override has the override as
\* its version and <name>-<override> as its id in the registry, in its module
\* entry, in the descriptor URL of that entry and in its discovery entry; the
\* backend override is the one taken when both maps give one
C26_OverrideRewritesVersionAndId ==
    /\ \A i \in DOMAIN backendModules :
         /\ CarriesOverride(backendModules[i])
         /\ ~applicationFetchDescriptors =>
                backendModules[i].url = ModuleDescriptorUrl(backendModules[i].id)
    /\ \A i \in DOMAIN frontendModules :
         /\ CarriesOverride(frontendModules[i])
         /\ ~applicationFetchDescriptors =>
                frontendModules[i].url = ModuleDescriptorUrl(frontendModules[i].id)
    /\ \A i \in DOMAIN discoveryModules : CarriesOverride(discoveryModules[i])
    /\ Assembled =>
         \A i \in DOMAIN registryModules :
            registryModules[i].name \in EntryNames(backendModules) \cup EntryNames(frontendModules) =>
                CarriesOverride(registryModules[i])

\* a module with a backend override and another frontend override was
\* registered with the backend's, descriptor URL and discovery entry included
C26_BothOverridesBackendTaken ==
    /\ appCreated = "yes"
    /\ \E i \in DOMAIN backendModules :
         LET name == backendModules[i].name IN
         /\ name \in DOMAIN backendModulesMap
         /\ name \in DOMAIN frontendModulesMap
         /\ backendModulesMap[name].ModuleVersion = <<"2", ".", "0">>
         /\ frontendModulesMap[name].ModuleVersion = <<"3", ".", "0">>
         /\ backendModules[i].version = <<"2", ".", "0">>
         /\ backendModules[i].url = ModuleDescriptorUrl(name \o <<"-", "2", ".", "0">>)
         /\ discoveryModules[i].id = name \o <<"-", "2", ".", "0">>

\* the platform tenants before and after the one the loop is at
TenantsBefore == {platTenants[i] : i \in {j \in DOMAIN platTenants : j < ti}}
TenantsAfter == {platTenants[i] : i \in {j \in DOMAIN platTenants : j > ti}}

\* C27: the tenants are processed one at a time and only the configured ones:
\* an unconfigured tenant is never polled or bound, at most one tenant is
\* between the start of its polling and the end of its binding, every
\* configured tenant before it is bound and no tenant after it has begun
C27_OneConfiguredTenantAtATime ==
    /\ \A t \in TenantNames \ cfgTenants :
         /\ barrier[t] = "Idle"
         /\ t \notin bound
         /\ \A i \in DOMAIN calls : calls[i].tenant # t
    /\ \A t \in TenantNames :
         /\ barrier[t] = "Polling" => pc = "poll" /\ t = CurTenant
         /\ (barrier[t] = "Drained" /\ t \notin bound) => pc = "bind" /\ t = CurTenant
    /\ pc \in {"poll", "bind"} =>
         /\ TenantsBefore \cap cfgTenants \subseteq bound
         /\ \A t \in TenantsAfter : barrier[t] = "Idle" /\ t \notin bound
    /\ bound \subseteq (TenantsBefore \cap cfgTenants)

\* the second configured tenant is polled after the first was bound, with an
\* unconfigured tenant of the platform passed over
C27_SecondPolledAfterFirstBound ==
    /\ pc = "poll"
    /\ Cardinality(bound) = 1
    /\ barrier[CurTenant] = "Polling"
    /\ CurTenant \notin bound
    /\ \E t \in Range(platTenants) : t \notin cfgTenants

\* the ids of the capability sets the platform holds under the names of a
\* configured list, entry by entry
RECURSIVE NameMatchedIds(_)
NameMatchedIds(capabilitySetsConfig) ==
    IF capabilitySetsConfig = <<>> THEN <<>>
    ELSE LET named == {i \in DOMAIN platCapSets : platCapSets[i].name = Head(capabilitySetsConfig)}
             ids == [i \in DOMAIN platCapSets |-> platCapSets[i].id]
         IN SelectSeq(ids, LAMBDA id : \E i \in named : platCapSets[i].id = id)
                \o NameMatchedIds(Tail(capabilitySetsConfig))

\* the ids the "all" expansion yields
ExpandedIds == CapabilitySetIdsOf(GetCapabilitySets)

\* C28: the "all" expansion is taken only for a list that is exactly ["all"];
\* every other list, one with "all" beside other names included, is resolved
\* by the name-match queries of its entries
C28_AllOnlyAsSoleEntry ==
    \A t \in bound : \A i \in DOMAIN platRoles[t] :
        LET role == platRoles[t][i]
            config == cfgRoles[ToLower(role.name)].capabilitySets
            expected == IF config = <<"all">> THEN ExpandedIds ELSE NameMatchedIds(config)
        IN BoundRole(t, role) =>
              /\ \A j \in AttachCallsOf(t, role.id) : calls[j].capabilitySetIds = expected
              /\ expected # <<>> => AttachCallsOf(t, role.id) # {}

\* a role configured with "all" beside a name was attached the sets of that
\* name only, on a platform whose expansion holds more
C28_AllBesideNameResolvedByName ==
    \E t \in bound : \E i \in DOMAIN platRoles[t] :
        LET role == platRoles[t][i] IN
        /\ BoundRole(t, role)
        /\ cfgRoles[ToLower(role.name)].capabilitySets = <<"all", "ui-users">>
        /\ \E j \in AttachCallsOf(t, role.id) :
              /\ calls[j].capabilitySetIds = NameMatchedIds(<<"ui-users">>)
              /\ Len(ExpandedIds) > Len(calls[j].capabilitySetIds)

\* C30: a capability set is attached to a platform role only if the role's
\* lower-cased name is a configured role and the tenant configured for that
\* role is the tenant being bound
C30_AttachOnlyConfiguredRoleOfTenant ==
    \A j \in DOMAIN calls :
        calls[j].op = "attachCapabilitySets" =>
            /\ calls[j].tenant \in bound
            /\ \E i \in DOMAIN platRoles[calls[j].tenant] :
                 LET role == platRoles[calls[j].tenant][i] IN
                 /\ role.id = calls[j].roleId
                 /\ ToLower(role.name) \in DOMAIN cfgRoles
                 /\ cfgRoles[ToLower(role.name)].tenant = calls[j].tenant

\* the tenant was bound and its role Admin, configured with capability sets
\* the platform holds but for another tenant, was left without an attach
\* call, as was the unconfigured role Guest
C30_RoleOfOtherTenantLeftOut ==
    \E t \in bound : \E i, k \in DOMAIN platRoles[t] :
        LET role == platRoles[t][i] IN
        /\ ToLower(role.name) \in DOMAIN cfgRoles
        /\ cfgRoles[ToLower(role.name)].tenant # t
        /\ ResolvedIds(role) # <<>>
        /\ AttachCallsOf(t, role.id) = {}
        /\ ToLower(platRoles[t][k].name) \notin DOMAIN cfgRoles
        /\ AttachCallsOf(t, platRoles[t][k].id) = {}

\* the positions of the POSTs that created a role, and of the DELETEs
CreatedRoles == {i \in DOMAIN calls : calls[i].op = "createRole" /\ calls[i].created}
DeletedRoles == {j \in DOMAIN calls : calls[j].op = "deleteRole"}

\* C31: every role CreateRoles created for the tenant is selected for deletion
\* by a later RemoveRoles for the same tenant, the platform returning the role
\* under the name it was created with
C31_CreatedRolesAreRemoved ==
    (tdone = {"CreateRoles", "RemoveRoles"} /\ run = "running") =>
        \A i \in CreatedRoles :
            \E j \in DeletedRoles :
                /\ j > i
                /\ calls[j].tenant = calls[i].tenant
                /\ calls[j].id = calls[i].id
                /\ calls[j].name = calls[i].name

\* the last tick read several rows, each a non-negative integer, and no error
TickedSeveralRows ==
    /\ ~lastTick.none
    /\ lastTick.sample.stderr = <<>>
    /\ Len(lastTick.sample.stdout) > 1
    /\ \A i \in DOMAIN lastTick.sample.stdout : AllDigits(lastTick.sample.stdout[i])
\* the lag of a row is zero
RowIsZero(row) == \A i \in DOMAIN row : row[i] = "0"

\* C32: on several rows, each a non-negative integer, getConsumerGroupLag
\* returns zero if and only if the lag of every row is zero, so the barrier
\* does not drain while a row still has lag
C32_ZeroIffEveryRowZero ==
    TickedSeveralRows =>
        /\ ~lastTick.result.panic
        /\ lastTick.result.lag = 0 <=>
              \A i \in DOMAIN lastTick.sample.stdout : RowIsZero(lastTick.sample.stdout[i])
        /\ barrier[lastTick.tenant] = "Drained" =>
              \A i \in DOMAIN lastTick.sample.stdout : RowIsZero(lastTick.sample.stdout[i])

====
